---- MODULE Spec2Model ----
(***************************************************************************)
(* Model of the provider mirror/cache engine of vc-terraform-registry:     *)
(* the path sanitizer (internal/proxy/proxy.go), the cache store, the      *)
(* mirror handlers (internal/api), the proxy client lock and the cron      *)
(* scheduler (internal/scheduler).                                         *)
(*                                                                         *)
(* Strings are sequences of one-character strings, so that the sanitizers  *)
(* are computed character by character as the Go code computes them.       *)
(***************************************************************************)
EXTENDS Integers, Sequences, FiniteSets, TLC

VARIABLES
    san,        \* SpecSan: the request being handled and what it did to the filesystem
    catalog,    \* SpecSan: file_path values of the ProviderPlatform rows
    dir,        \* Spec: per platform, the inode linked at the final path and at the .tmp path
    content,    \* Spec: the chunks each inode holds
    task,       \* Spec: the running handlers and goroutines
    provider,   \* Spec: a Provider row exists for the version
    rows,       \* Spec: per platform, the sha256 of its ProviderPlatform rows, oldest first
    ops,        \* Spec: operations started so far
    upFault,    \* Spec: upstream has failed or served wrong bytes at least once
    settings,   \* SpecProxy: the Settings row
    pfields,    \* SpecProxy: proxyEnabled, proxyURL, proxyType of the ProxyService
    httpClient, \* SpecProxy: the client p.httpClient points to
    mu,         \* SpecProxy: p.mu
    caller,     \* SpecProxy: the handlers using the ProxyService
    sched,      \* SpecSched: the SyncSchedule rows
    jobs,       \* SpecSched: the ids in Scheduler.jobs
    entry,      \* SpecSched: the expression of the cron entry kept for each id
    cronEntries, \* SpecSched: the live entries of Scheduler.cron
    jobEntryID, \* SpecSched: the cron.EntryID Scheduler.jobs keeps for each id
    fresh,      \* SpecSched: refreshSchedules has run and no row was written since
    run,        \* SpecSched: the runSync goroutines
    trig,       \* SpecSched: a run-now request was accepted for the schedule
    allowOnline, \* SpecServe: Settings.AllowOnlineSearch
    dbProvider, \* SpecServe: the Provider row of the version and its downloads counter
    dbPlatform, \* SpecServe: per platform, its ProviderPlatform row
    req,        \* SpecServe: the DownloadProvider requests being handled
    served,     \* SpecServe: responses that carried the bytes of a binary
    archives,   \* SpecArch: the GetVersionArchives request being answered
    index,      \* SpecArch: the ListAvailableVersions request being answered
    stream,     \* SpecStream: the MirrorProviderWithProgress request and its subscriber
    mirrored,   \* SpecStream: the platforms with a cache file and with a row
    resolve,    \* SpecResolve: a platform resolution, its inputs and its two results
    package,    \* SpecImport: the archive ExportProvider produced, as the operator holds it
    imp,        \* SpecImport: the ImportProvider request being handled
    dest,       \* SpecImport: the importing instance, its Provider row, platform rows and files
    call,       \* SpecCall: one call of a sanitizer or validator, its arguments and its result
    logLines,   \* SpecCall: the strings the call handed to the log, as they reach it
    coord,      \* SpecLife: one provider version in the database and on disk, its Provider row, soft-deleted or not, and its platforms
    lifeOp      \* SpecLife: the operation on the provider version that has just answered

sanVars == <<san, catalog>>

cacheVars == <<dir, content, task, provider, rows, ops, upFault>>

proxyVars == <<settings, pfields, httpClient, mu, caller>>

schedVars == <<sched, jobs, entry, cronEntries, jobEntryID, fresh, run, trig>>

serveVars == <<allowOnline, dbProvider, dbPlatform, req, served, archives, index>>

streamVars == <<stream, mirrored>>

resolveVars == <<resolve>>

importVars == <<package, imp, dest>>

callVars == <<call, logLines>>

lifeVars == <<coord, lifeOp>>

exceptSan == <<cacheVars, proxyVars, schedVars, serveVars, streamVars, resolveVars, importVars, callVars, lifeVars>>

exceptCache == <<sanVars, proxyVars, schedVars, serveVars, streamVars, resolveVars, importVars, callVars, lifeVars>>

exceptProxy == <<sanVars, cacheVars, schedVars, serveVars, streamVars, resolveVars, importVars, callVars, lifeVars>>

exceptSched == <<sanVars, cacheVars, proxyVars, serveVars, streamVars, resolveVars, importVars, callVars, lifeVars>>

exceptServe == <<sanVars, cacheVars, proxyVars, schedVars, streamVars, resolveVars, importVars, callVars, lifeVars>>

exceptStream == <<sanVars, cacheVars, proxyVars, schedVars, serveVars, resolveVars, importVars, callVars, lifeVars>>

exceptResolve == <<sanVars, cacheVars, proxyVars, schedVars, serveVars, streamVars, importVars, callVars, lifeVars>>

exceptImport == <<sanVars, cacheVars, proxyVars, schedVars, serveVars, streamVars, resolveVars, callVars, lifeVars>>

exceptCall == <<sanVars, cacheVars, proxyVars, schedVars, serveVars, streamVars, resolveVars, importVars, lifeVars>>

exceptLife == <<sanVars, cacheVars, proxyVars, schedVars, serveVars, streamVars, resolveVars, importVars, callVars>>

vars == <<san, catalog, dir, content, task, provider, rows, ops, upFault,
          settings, pfields, httpClient, mu, caller, sched, jobs, entry, cronEntries, jobEntryID, fresh,
          run, trig, allowOnline, dbProvider, dbPlatform, req, served, archives,
          index, stream, mirrored,
          resolve,
          package, imp, dest,
          call, logLines,
          coord, lifeOp>>

----------------------------------------------------------------------------
(* Bounds *)

\* longest adversarial path component drawn
MaxLen == 2

\* platforms upstream advertises for the version
NPlat == 2

\* handlers and goroutines running at once
NTasks == 2

\* chunks io.Copy writes for one binary
NChunks == 2

\* operations (requests, cron firings) started in one behaviour
MaxOps == 2

\* handlers using the shared ProxyService at once
NCallers == 2

\* sync schedules
NSched == 1

\* runSync goroutines at once
NRuns == 2

\* DownloadProvider requests handled at the same time
NReqs == 2

\* downloads counted
MaxServes == 2

\* versions of one provider, locally or upstream
NVers == 2

\* entries of the version list upstream answers with
MaxUpstream == 2

----------------------------------------------------------------------------
(* Characters and strings *)

NUL == "NUL"

\* representatives of the character classes the sanitizers distinguish:
\* alphanumeric, dot, hyphen, slash, backslash, NUL byte
Chars == {"a", ".", "-", "/", "\\", NUL}

\* a line feed, as one of the control characters
LF == "LF"

\* lower-case letters, upper-case letters and digits
Lower == {"a"}

Upper == {"A"}

Digit == {"1"}

Alnum == Lower \cup Upper \cup Digit

\* the bytes a request parameter or an upstream answer may carry: those of Chars
\* and an upper-case letter, a digit, underscore, plus and a line feed
Bytes == Chars \cup {"A", "1", "_", "+", LF}

StrsOver(alphabet, n) == UNION {[1..k -> alphabet] : k \in 0..n}


Strs(n) == UNION {[1..k -> Chars] : k \in 0..n}

\* strings.Contains
Contains(s, sub) ==
    \E i \in 1..(Len(s) - Len(sub) + 1) : SubSeq(s, i, i + Len(sub) - 1) = sub

\* strings.HasPrefix
HasPrefix(s, p) == Len(p) <= Len(s) /\ SubSeq(s, 1, Len(p)) = p

\* strings.Split(s, "/")
RECURSIVE SplitSlash(_)
SplitSlash(s) ==
    IF \A i \in 1..Len(s) : s[i] # "/"
    THEN <<s>>
    ELSE LET i == CHOOSE k \in 1..Len(s) : s[k] = "/" /\ \A j \in 1..(k-1) : s[j] # "/"
         IN  <<SubSeq(s, 1, i-1)>> \o SplitSlash(SubSeq(s, i+1, Len(s)))

\* strings.Join(elems, "/")
RECURSIVE JoinSlash(_)
JoinSlash(elems) ==
    IF elems = <<>> THEN <<>>
    ELSE IF Len(elems) = 1 THEN elems[1]
    ELSE elems[1] \o <<"/">> \o JoinSlash(Tail(elems))

Ok(v) == [ok |-> TRUE, val |-> v]
Err == [ok |-> FALSE, val |-> <<>>]

----------------------------------------------------------------------------
(* path/filepath (Unix) *)

\* the element loop of filepath.Clean: drop empty and "." elements, let ".."
\* remove the element before it, drop ".." at the root, keep leading ".."
RECURSIVE CleanSegs(_, _, _)
CleanSegs(segs, stack, rooted) ==
    IF segs = <<>> THEN stack
    ELSE LET h == Head(segs)
             t == Tail(segs)
         IN  IF h = <<>> \/ h = <<".">>
             THEN CleanSegs(t, stack, rooted)
             ELSE IF h = <<".", ".">>
             THEN IF stack # <<>> /\ stack[Len(stack)] # <<".", ".">>
                  THEN CleanSegs(t, SubSeq(stack, 1, Len(stack) - 1), rooted)
                  ELSE IF rooted
                  THEN CleanSegs(t, stack, rooted)
                  ELSE CleanSegs(t, Append(stack, h), rooted)
             ELSE CleanSegs(t, Append(stack, h), rooted)

\* filepath.Clean
Clean(s) ==
    IF s = <<>> THEN <<".">>
    ELSE LET rooted == s[1] = "/"
             body == JoinSlash(CleanSegs(SplitSlash(s), <<>>, rooted))
         IN  IF rooted THEN <<"/">> \o body
             ELSE IF body = <<>> THEN <<".">> ELSE body

\* filepath.Join: the first non-empty element and all after it, joined and cleaned
RECURSIVE Join(_)
Join(elems) ==
    IF elems = <<>> THEN <<>>
    ELSE IF Head(elems) = <<>> THEN Join(Tail(elems))
    ELSE Clean(JoinSlash(elems))

\* trailing slashes removed
RECURSIVE StripSlashes(_)
StripSlashes(s) ==
    IF s # <<>> /\ s[Len(s)] = "/" THEN StripSlashes(SubSeq(s, 1, Len(s) - 1)) ELSE s

\* filepath.Base
Base(s) ==
    IF s = <<>> THEN <<".">>
    ELSE LET p == StripSlashes(s)
             segs == SplitSlash(p)
             last == segs[Len(segs)]
         IN  IF last = <<>> THEN <<"/">> ELSE last

----------------------------------------------------------------------------
(* The sanitizers of internal/proxy/proxy.go *)

\* pathComponentRegex  ^[a-zA-Z0-9][a-zA-Z0-9._-]*$
pathComponentRegex(s) ==
    /\ s # <<>>
    /\ s[1] \in Alnum
    /\ \A i \in 2..Len(s) : s[i] \in Alnum \cup {".", "_", "-"}

\* a sanitizer with the whitelist alone
sanitizePathComponentRegexOnly(component) ==
    IF pathComponentRegex(component) THEN Ok(component) ELSE Err

\* a sanitizer that accepts letters and digits alone
sanitizePathComponentAlnumOnly(component) ==
    IF component # <<>> /\ \A i \in 1..Len(component) : component[i] \in Alnum
    THEN Ok(component) ELSE Err

\* a sanitizer that forgets the separator and traversal checks
sanitizePathComponentNoChecks(component) ==
    IF component = <<>> THEN Err ELSE Ok(component)

sanitizePathComponent(component) ==
    IF component = <<>> THEN Err
    ELSE IF \/ Contains(component, <<".", ".">>)
            \/ Contains(component, <<"/">>)
            \/ Contains(component, <<"\\">>)
            \/ Contains(component, <<NUL>>)
    THEN Err
    ELSE IF ~pathComponentRegex(component) THEN Err
    ELSE Ok(component)

buildSafeProviderPath(storagePath, namespace, name, version, osType, arch) ==
    LET safeNS == sanitizePathComponent(namespace)
        safeName == sanitizePathComponent(name)
        safeVersion == sanitizePathComponent(version)
        safeOS == sanitizePathComponent(osType)
        safeArch == sanitizePathComponent(arch)
    IN  IF ~safeNS.ok THEN Err
        ELSE IF ~safeName.ok THEN Err
        ELSE IF ~safeVersion.ok THEN Err
        ELSE IF ~safeOS.ok THEN Err
        ELSE IF ~safeArch.ok THEN Err
        ELSE LET dirPath == Join(<<storagePath, safeNS.val, safeName.val,
                                   safeVersion.val, safeOS.val, safeArch.val>>)
                 cleanPath == Clean(dirPath)
                 cleanStorage == Clean(storagePath)
             IN  IF ~HasPrefix(cleanPath, cleanStorage \o <<"/">>)
                 THEN Err
                 ELSE Ok(cleanPath)

sanitizeFilename(filename) ==
    IF filename = <<>> THEN Err
    ELSE LET safeName == Base(filename)
         IN  IF safeName = <<".">> \/ safeName = <<".", ".">> \/ safeName = <<>>
             THEN Err
             ELSE IF Contains(safeName, <<NUL>>) THEN Err
             ELSE Ok(safeName)

----------------------------------------------------------------------------
(* The validators of internal/api/mirror_protocol_handler.go *)

\* longest namespace, name or version validateProviderParams accepts
MaxParamLen == 64

\* validIdentifier  ^[a-z0-9][a-z0-9_-]*$
validIdentifier(s) ==
    /\ s # <<>>
    /\ s[1] \in Lower \cup Digit
    /\ \A i \in 2..Len(s) : s[i] \in Lower \cup Digit \cup {"_", "-"}

\* [0-9]+
Digits(s) == s # <<>> /\ \A i \in 1..Len(s) : s[i] \in Digit

\* [a-zA-Z0-9._-]+
SemverWord(s) == s # <<>> /\ \A i \in 1..Len(s) : s[i] \in Alnum \cup {".", "_", "-"}

\* [0-9]+\.[0-9]+\.[0-9]+
SemverCore(s) ==
    \E i \in 1..Len(s), j \in 1..Len(s) :
        /\ i < j
        /\ s[i] = "." /\ s[j] = "."
        /\ Digits(SubSeq(s, 1, i - 1))
        /\ Digits(SubSeq(s, i + 1, j - 1))
        /\ Digits(SubSeq(s, j + 1, Len(s)))

\* validVersion  ^[0-9]+\.[0-9]+\.[0-9]+(-[a-zA-Z0-9._-]+)?(\+[a-zA-Z0-9._-]+)?$
validVersion(s) ==
    \E a \in 0..Len(s) : \E b \in a..Len(s) :
        /\ SemverCore(SubSeq(s, 1, a))
        /\ \/ a = b
           \/ s[a + 1] = "-" /\ SemverWord(SubSeq(s, a + 2, b))
        /\ \/ b = Len(s)
           \/ s[b + 1] = "+" /\ SemverWord(SubSeq(s, b + 2, Len(s)))

\* a validator that takes the version as it comes
validateProviderParamsAnyVersion(namespace, name, version) ==
    IF Len(namespace) > MaxParamLen \/ ~validIdentifier(namespace)
    THEN "invalid namespace"
    ELSE IF Len(name) > MaxParamLen \/ ~validIdentifier(name)
    THEN "invalid name"
    ELSE ""

\* validateProviderParams: the error message, "" when the parameters are valid
validateProviderParams(namespace, name, version) ==
    IF Len(namespace) > MaxParamLen \/ ~validIdentifier(namespace)
    THEN "invalid namespace"
    ELSE IF Len(name) > MaxParamLen \/ ~validIdentifier(name)
    THEN "invalid name"
    ELSE IF version # <<>> /\ (Len(version) > MaxParamLen \/ ~validVersion(version))
    THEN "invalid version"
    ELSE ""

\* logSanitizer  [\x00-\x1f\x7f]
ControlChars == {NUL, LF}

\* the complement of logSafeChars  [^a-zA-Z0-9 .,_:@/\-]
LogSafe == Alnum \cup {" ", ".", ",", "_", ":", "@", "/", "-"}

\* the length sanitizeForLog cuts its result to
MaxLogLen == 100

\* strings.TrimSpace
RECURSIVE TrimSpace(_)
TrimSpace(s) ==
    IF s = <<>> THEN s
    ELSE IF s[1] = " " THEN TrimSpace(Tail(s))
    ELSE IF s[Len(s)] = " " THEN TrimSpace(SubSeq(s, 1, Len(s) - 1))
    ELSE s

\* a log sanitizer that only trims
sanitizeForLogKeepsControl(s) == TrimSpace(s)

\* sanitizeForLog: control characters removed, every other character outside
\* the safe set replaced by "?", spaces trimmed, the result cut to 100 bytes
sanitizeForLog(s) ==
    LET noControl == SelectSeq(s, LAMBDA ch : ch \notin ControlChars)
        replaced == [i \in 1..Len(noControl) |->
                        IF noControl[i] \in LogSafe THEN noControl[i] ELSE "?"]
        safe == TrimSpace(replaced)
    IN  IF Len(safe) > MaxLogLen
        THEN SubSeq(safe, 1, MaxLogLen) \o <<".", ".", ".">>
        ELSE safe

\* safeLogf's treatment of one argument: sanitizeForLog, then strconv.Quote
safeLogf(arg) == <<"\"">> \o sanitizeForLog(arg) \o <<"\"">>

----------------------------------------------------------------------------
(* SpecCall: one call of a sanitizer, or one GetVersionArchives request up *)
(* to the path validation of the background fill it starts, on arguments   *)
(* drawn in the initial state.                                             *)

\* the versions a request may name: nothing, three numbers or two, then a suffix
SemverCores == {<<>>, <<"1", ".", "1", ".", "1">>, <<"1", ".", "1">>}

VersionStrs ==
    {c \o x : c \in SemverCores, x \in StrsOver({"a", "1", ".", "-", "+", "/"}, MaxLen)}

NoBuild == [ok |-> FALSE, val |-> <<"-">>]

NoOut == [ok |-> FALSE, val |-> <<>>, msg |-> "", fill |-> FALSE, path |-> NoBuild]

IdleCall == [pc |-> "off", op |-> "none", s |-> <<>>, namespace |-> <<"a">>,
             name |-> <<"a">>, version |-> <<>>, out |-> NoOut]

\* SanitizePathComponent on the string drawn
CallSanitizePathComponent ==
    /\ call.pc = "idle"
    /\ LET r == sanitizePathComponent(call.s)
       IN  call' = [call EXCEPT !.pc = "done", !.op = "sanitizePathComponent",
                                !.out = [NoOut EXCEPT !.ok = r.ok, !.val = r.val]]
    /\ UNCHANGED logLines
    /\ UNCHANGED exceptCall

\* SanitizeFilename on the string drawn
CallSanitizeFilename ==
    /\ call.pc = "idle"
    /\ LET r == sanitizeFilename(call.s)
       IN  call' = [call EXCEPT !.pc = "done", !.op = "sanitizeFilename",
                                !.out = [NoOut EXCEPT !.ok = r.ok, !.val = r.val]]
    /\ UNCHANGED logLines
    /\ UNCHANGED exceptCall

\* GetVersionArchives for a version upstream lists with more platforms than are
\* cached: validateProviderParams, then asyncCacheProvider, which logs the
\* coordinate with log.Printf and whose DownloadAndStoreProvider builds the
\* directory path of a platform
CallGetVersionArchives ==
    /\ call.pc = "idle"
    /\ LET errMsg == validateProviderParams(call.namespace, call.name, call.version)
       IN  call' = [call EXCEPT
                      !.pc = "done", !.op = "GetVersionArchives",
                      !.out = IF errMsg # ""
                              THEN [NoOut EXCEPT !.msg = errMsg]
                              ELSE [NoOut EXCEPT
                                      !.ok = TRUE, !.fill = TRUE,
                                      !.path = buildSafeProviderPath(
                                                  <<"/", "a">>, call.namespace, call.name,
                                                  call.version, <<"a">>, <<"a">>)]]
          /\ logLines' = IF errMsg # "" THEN logLines
                         ELSE logLines \cup {call.namespace, call.name, call.version}
    /\ UNCHANGED exceptCall

\* asyncCacheProvider's report on a platform of the upstream answer, whose os is
\* the string drawn: safeLogf
CallSafeLogf ==
    /\ call.pc = "idle"
    /\ call' = [call EXCEPT !.pc = "done", !.op = "safeLogf"]
    /\ logLines' = logLines \cup {safeLogf(call.s)}
    /\ UNCHANGED exceptCall

\* runSync on a schedule row CreateSchedule stored: namespace and name are bound
\* as required and stored as they came; runSync logs them with log.Printf
CallRunSync ==
    /\ call.pc = "idle"
    /\ call.namespace # <<>> /\ call.name # <<>>
    /\ call' = [call EXCEPT !.pc = "done", !.op = "runSync"]
    /\ logLines' = logLines \cup {call.namespace, call.name}
    /\ UNCHANGED exceptCall

\* downloadAndSavePlatform on a platform of the upstream answer, whose os is the
\* string drawn: when DownloadAndCacheProvider fails, as it does on an os the
\* path sanitizer rejects, the os is logged with log.Printf
CallDownloadAndSavePlatform ==
    /\ call.pc = "idle"
    /\ \E failed \in BOOLEAN :
          /\ ~sanitizePathComponent(call.s).ok => failed
          /\ call' = [call EXCEPT !.pc = "done", !.op = "downloadAndSavePlatform",
                                  !.out = [NoOut EXCEPT !.ok = ~failed]]
          /\ logLines' = IF failed THEN logLines \cup {call.s} ELSE logLines
    /\ UNCHANGED exceptCall

----------------------------------------------------------------------------
(* SpecSan: what each handler does to the filesystem, path by path.        *)
(* A request is drawn in the initial state; one handler runs on it; a      *)
(* catalog row it left behind can then be served or deleted.               *)

\* storage base directories: main.go makes the configured path absolute, the
\* exported BuildSafeProviderPath also takes a base that still needs cleaning
Bases == {<<"/", "a">>, <<"/", "a", "/">>, <<"/", "a", "/", "a">>, <<"/">>}

\* filenames an upstream descriptor, an uploader or an import manifest may give
FileNames == {<<"a">>, <<>>, <<".">>, <<".", ".">>, <<"/">>,
              <<".", ".", "/", "a">>, <<"a", NUL>>}

\* file_path values a client may put into a catalog record
FilePaths == {<<"/", "a", "/", "a">>, <<"/", "-">>, <<".", ".", "/", "a">>}

\* the ".tmp" suffix and the fixed parts of the default filename, as single tokens
TmpSuffix == <<".tmp">>

DefaultFilename(name, version, osType, arch) ==
    <<"terraform-provider-">> \o sanitizePathComponent(name).val \o <<"_">>
        \o sanitizePathComponent(version).val \o <<"_">>
        \o sanitizePathComponent(osType).val \o <<"_">>
        \o sanitizePathComponent(arch).val \o <<".zip">>

\* the outcome of one handler: its result, the directories it created, the files
\* it created or wrote, every path it handed to the filesystem, and the file_path
\* of the row its caller records
Effect(res, built, mk, wr, acc, row) ==
    [res |-> res, built |-> built, mk |-> mk, wr |-> wr, acc |-> acc, row |-> row]

\* DownloadAndCacheProvider: infoOk = the descriptor was fetched, fname = its
\* filename, dl = how the binary download went
DownloadAndCacheProviderFs(base, c, infoOk, fname, dl) ==
    LET b == buildSafeProviderPath(base, c[1], c[2], c[3], c[4], c[5])
        f == sanitizeFilename(fname)
        filePath == Join(<<b.val, f.val>>)
        tempPath == filePath \o TmpSuffix
    IN  IF ~b.ok THEN Effect("rejected", b, {}, {}, {}, {})
        ELSE IF ~infoOk THEN Effect("error", b, {}, {}, {}, {})
        ELSE IF ~f.ok THEN Effect("rejected", b, {b.val}, {}, {b.val}, {})
        ELSE IF dl = "get_failed"
        THEN Effect("error", b, {b.val}, {}, {b.val, filePath}, {})
        ELSE IF dl \in {"write_failed", "mismatch"}
        THEN Effect("error", b, {b.val}, {tempPath}, {b.val, filePath, tempPath}, {})
        ELSE Effect("ok", b, {b.val}, {tempPath, filePath},
                    {b.val, filePath, tempPath}, {filePath})

\* DownloadAndStoreProvider: url = the download URL of the descriptor
DownloadAndStoreProviderFs(base, c, url, dl) ==
    LET b == buildSafeProviderPath(base, c[1], c[2], c[3], c[4], c[5])
        parts == SplitSlash(url)
        f == sanitizeFilename(parts[Len(parts)])
        filename == IF ~f.ok \/ f.val = <<>>
                    THEN DefaultFilename(c[2], c[3], c[4], c[5])
                    ELSE f.val
        filePath == Join(<<b.val, filename>>)
        tempPath == filePath \o TmpSuffix
    IN  IF ~b.ok THEN Effect("rejected", b, {}, {}, {}, {})
        ELSE IF dl = "get_failed"
        THEN Effect("error", b, {b.val}, {}, {b.val, filePath}, {})
        ELSE IF dl = "write_failed"
        THEN Effect("error", b, {b.val}, {tempPath}, {b.val, filePath, tempPath}, {})
        ELSE Effect("ok", b, {b.val}, {tempPath, filePath},
                    {b.val, filePath, tempPath}, {filePath})

\* SaveUploadedProvider: fname = the uploaded file's name
SaveUploadedProviderFs(base, c, fname, dl) ==
    LET b == buildSafeProviderPath(base, c[1], c[2], c[3], c[4], c[5])
        f == sanitizeFilename(fname)
        filePath == Join(<<b.val, f.val>>)
    IN  IF ~b.ok THEN Effect("rejected", b, {}, {}, {}, {})
        ELSE IF ~f.ok THEN Effect("rejected", b, {}, {}, {}, {})
        ELSE IF dl = "write_failed"
        THEN Effect("error", b, {b.val}, {filePath}, {b.val, filePath}, {})
        ELSE Effect("ok", b, {b.val}, {filePath}, {b.val, filePath}, {filePath})

\* extractZipFile: fname = the manifest's filename for the platform
extractZipFileFs(base, c, fname, dl) ==
    LET b == buildSafeProviderPath(base, c[1], c[2], c[3], c[4], c[5])
        f == sanitizeFilename(fname)
        filePath == Join(<<b.val, f.val>>)
    IN  IF ~b.ok THEN Effect("rejected", b, {}, {}, {}, {})
        ELSE IF ~f.ok THEN Effect("rejected", b, {b.val}, {}, {b.val}, {})
        ELSE IF dl = "write_failed"
        THEN Effect("error", b, {b.val}, {filePath}, {b.val, filePath}, {})
        ELSE Effect("ok", b, {b.val}, {filePath}, {b.val, filePath}, {filePath})

\* GetCachedFilePath: build the directory path and list it
GetCachedFilePathFs(base, c) ==
    LET b == buildSafeProviderPath(base, c[1], c[2], c[3], c[4], c[5])
    IN  IF ~b.ok THEN Effect("rejected", b, {}, {}, {}, {})
        ELSE Effect("ok", b, {}, {}, {b.val}, {})

SanRan(op, e) ==
    /\ san' = [san EXCEPT !.pc = "done", !.op = op, !.res = e.res, !.built = e.built,
                          !.mk = e.mk, !.wr = e.wr, !.acc = e.acc]
    /\ catalog' = catalog \cup e.row
    /\ UNCHANGED exceptSan

SanDownloadAndCacheProvider ==
    /\ san.pc = "idle"
    /\ \E infoOk \in BOOLEAN, fname \in FileNames,
          dl \in {"get_failed", "write_failed", "mismatch", "ok"} :
          SanRan("DownloadAndCacheProvider",
                 DownloadAndCacheProviderFs(san.base, san.comp, infoOk, fname, dl))

SanDownloadAndStoreProvider ==
    /\ san.pc = "idle"
    /\ \E url \in FileNames, dl \in {"get_failed", "write_failed", "ok"} :
          SanRan("DownloadAndStoreProvider",
                 DownloadAndStoreProviderFs(san.base, san.comp, url, dl))

SanSaveUploadedProvider ==
    /\ san.pc = "idle"
    /\ \E fname \in FileNames, dl \in {"write_failed", "ok"} :
          SanRan("SaveUploadedProvider",
                 SaveUploadedProviderFs(san.base, san.comp, fname, dl))

SanExtractZipFile ==
    /\ san.pc = "idle"
    /\ \E fname \in FileNames, dl \in {"write_failed", "ok"} :
          SanRan("extractZipFile", extractZipFileFs(san.base, san.comp, fname, dl))

SanGetCachedFilePath ==
    /\ san.pc = "idle"
    /\ SanRan("GetCachedFilePath", GetCachedFilePathFs(san.base, san.comp))

\* Handler.CreateProvider: the bound JSON, platforms and their file_path included,
\* is inserted as it came
SanCreateProvider ==
    /\ san.pc = "idle"
    /\ \E fp \in FilePaths :
          SanRan("CreateProvider", Effect("ok", NoBuild, {}, {}, {}, {fp}))

\* MirrorHandler.DownloadProvider: serve the file the platform row names
SanDownloadProvider ==
    /\ san.pc = "done"
    /\ \E fp \in catalog :
          san' = [san EXCEPT !.pc = "served", !.op = "DownloadProvider",
                             !.acc = @ \cup {fp}]
    /\ UNCHANGED catalog
    /\ UNCHANGED exceptSan

\* MirrorHandler.DeleteProvider: remove the file of every platform row
SanDeleteProvider ==
    /\ san.pc = "done"
    /\ catalog # {}
    /\ san' = [san EXCEPT !.pc = "deleted", !.op = "DeleteProvider",
                          !.acc = @ \cup {fp \in catalog : fp # <<>>}]
    /\ catalog' = {}
    /\ UNCHANGED exceptSan

----------------------------------------------------------------------------
(* The cache store and the operations that fill it.  One provider version  *)
(* with NPlat platforms; the filesystem is a directory of two names per    *)
(* platform (the final path and its .tmp sibling) over inodes, so that     *)
(* os.Create on an existing name truncates the inode every holder shares.  *)

Plats == 1..NPlat

Tasks == 1..NTasks

None == 0

\* an inode is referenced by a directory entry or by an open file
Inodes == 1..(NPlat + NTasks)

\* the bytes upstream serves: the artifact, or a transfer that differs from it
Body(b) == [i \in 1..NChunks |-> <<b, i>>]

GoodBody == Body("good")

BadBody == Body("bad")

Hole == <<"hole", 0>>

\* hex sha256 of a content; the digest is collision free
SHA256(c) == <<"sha", c>>

NoSha == <<"none", <<>>>>

\* the checksum of the upstream descriptor (info.SHA256Sum)
DescriptorSHA == SHA256(GoodBody)

\* a write of one chunk at offset k of an open file
WriteAt(c, k, ch) ==
    IF k <= Len(c) THEN [c EXCEPT ![k] = ch]
    ELSE c \o [i \in 1..(k - Len(c) - 1) |-> Hole] \o <<ch>>

Referenced(d, tk) ==
    {d[p].final : p \in Plats} \cup {d[p].tmp : p \in Plats} \cup {tk[t].fd : t \in Tasks}

\* an inode nothing references any more is freed
Gc(c, d, tk) == [i \in Inodes |-> IF i \in Referenced(d, tk) THEN c[i] ELSE <<>>]

FreshInode(d, tk) == CHOOSE i \in Inodes : i \notin Referenced(d, tk)

\* a request or cron firing gets the lowest free task slot
CanStart(t) ==
    /\ task[t].kind = "free"
    /\ \A u \in Tasks : u < t => task[u].kind # "free"
    /\ ops < MaxOps

IdleTask ==
    [kind |-> "free", pc |-> "idle", plat |-> 1, body |-> "none", fd |-> None, off |-> 0,
     got |-> [p \in Plats |-> NoSha], resolved |-> FALSE, result |-> "none"]

\* the loop over the platforms, and the result the operation reports after it:
\* MirrorProvider, Scheduler.mirrorProvider/runSync, downloadAndCacheFromUpstream,
\* the goroutine of GetProviderDownloadInfo, asyncCacheProvider
NextPlat(r) ==
    IF r.kind \in {"mirror", "sync", "fill"} /\ r.plat < NPlat
    THEN [r EXCEPT !.plat = @ + 1, !.pc = "begin"]
    ELSE IF r.kind = "mirror"
    THEN IF \A p \in Plats : r.got[p] = NoSha
         THEN [r EXCEPT !.pc = "done", !.result = "failed"]
         ELSE [r EXCEPT !.pc = "saveAll"]
    ELSE IF r.kind = "sync"
    THEN [r EXCEPT !.pc = "done", !.result = "success"]
    ELSE IF r.kind = "fallback"
    THEN [r EXCEPT !.pc = "done",
                   !.result = IF r.got[r.plat] = NoSha THEN "failed" ELSE "success"]
    ELSE [r EXCEPT !.pc = "done"]

\* the download of the current platform returned: sha = NoSha is an error
PlatDone(tk, sha) ==
    LET r == [tk EXCEPT !.got[tk.plat] = sha, !.body = "none", !.fd = None, !.off = 0]
    IN  IF sha # NoSha /\ tk.kind \in {"sync", "fallback", "fill"}
        THEN [r EXCEPT !.pc = "saveRow"]
        ELSE NextPlat(r)

\* len(localPlatforms) of GetVersionArchives
RECURSIVE SumLen(_)
SumLen(ps) ==
    IF ps = {} THEN 0
    ELSE LET p == CHOOSE x \in ps : TRUE IN Len(rows[p]) + SumLen(ps \ {p})

RowCount == SumLen(Plats)

\* MirrorHandler.MirrorProvider: fetchPlatformsToMirror, then the download loop
StartMirror(t) ==
    /\ CanStart(t)
    /\ ops' = ops + 1
    /\ \E up \in BOOLEAN :
          /\ task' = [task EXCEPT ![t] =
                IF up THEN [IdleTask EXCEPT !.kind = "mirror", !.pc = "begin", !.resolved = TRUE]
                ELSE [IdleTask EXCEPT !.kind = "mirror", !.pc = "done", !.result = "failed"]]
          /\ upFault' = (upFault \/ ~up)
    /\ UNCHANGED <<dir, content, provider, rows>>
    /\ UNCHANGED exceptCache

\* Scheduler.runSync: getPlatformsToMirror, then the download loop
StartSync(t) ==
    /\ CanStart(t)
    /\ ops' = ops + 1
    /\ \E up \in BOOLEAN :
          /\ task' = [task EXCEPT ![t] =
                IF up THEN [IdleTask EXCEPT !.kind = "sync", !.pc = "begin", !.resolved = TRUE]
                ELSE [IdleTask EXCEPT !.kind = "sync", !.pc = "done", !.result = "failed"]]
          /\ upFault' = (upFault \/ ~up)
    /\ UNCHANGED <<dir, content, provider, rows>>
    /\ UNCHANGED exceptCache

\* MirrorHandler.DownloadProvider without a local row: downloadAndCacheFromUpstream
StartFallback(t, p) ==
    /\ CanStart(t)
    /\ ops' = ops + 1
    /\ ~(provider /\ rows[p] # <<>>)
    /\ \E up \in BOOLEAN :
          /\ task' = [task EXCEPT ![t] =
                IF up THEN [IdleTask EXCEPT !.kind = "fallback", !.pc = "begin", !.plat = p]
                ELSE [IdleTask EXCEPT !.kind = "fallback", !.pc = "done", !.plat = p,
                                      !.result = "failed"]]
          /\ upFault' = (upFault \/ ~up)
    /\ UNCHANGED <<dir, content, provider, rows>>
    /\ UNCHANGED exceptCache

\* MirrorHandler.GetProviderDownloadInfo without a local row: the descriptor is
\* fetched and a goroutine caches the binary
StartBgCache(t, p) ==
    /\ CanStart(t)
    /\ ops' = ops + 1
    /\ ~(provider /\ rows[p] # <<>>)
    /\ task' = [task EXCEPT ![t] = [IdleTask EXCEPT !.kind = "bgcache", !.pc = "begin",
                                                   !.plat = p]]
    /\ UNCHANGED <<dir, content, provider, rows, upFault>>
    /\ UNCHANGED exceptCache

\* ProviderMirrorHandler.GetVersionArchives: fewer local rows than upstream
\* platforms, so asyncCacheProvider is started
StartFill(t) ==
    /\ CanStart(t)
    /\ ops' = ops + 1
    /\ RowCount < NPlat
    /\ task' = [task EXCEPT ![t] = [IdleTask EXCEPT !.kind = "fill", !.pc = "fillBegin"]]
    /\ UNCHANGED <<dir, content, provider, rows, upFault>>
    /\ UNCHANGED exceptCache

\* asyncCacheProvider up to its loop: return when a Provider row exists, else
\* create the row
FillBegin(t) ==
    /\ task[t].pc = "fillBegin"
    /\ task' = [task EXCEPT ![t] =
          IF provider THEN [@ EXCEPT !.pc = "done", !.result = "skipped"]
          ELSE [@ EXCEPT !.pc = "begin", !.resolved = TRUE]]
    /\ provider' = TRUE
    /\ UNCHANGED <<dir, content, rows, upFault, ops>>
    /\ UNCHANGED exceptCache

CacheBeginNoHit(t) ==
    /\ task[t].pc = "begin"
    /\ task[t].kind # "fill"
    /\ \E o \in {"info_failed", "get_failed", "good", "bad"} :
          /\ task' = [task EXCEPT ![t] =
                IF o \in {"info_failed", "get_failed"} THEN PlatDone(@, NoSha)
                ELSE [@ EXCEPT !.pc = "create", !.body = o]]
          /\ upFault' = (upFault \/ o # "good")
    /\ UNCHANGED <<dir, content, provider, rows, ops>>
    /\ UNCHANGED exceptCache

\* DownloadAndCacheProvider up to the GET of the binary: descriptor, MkdirAll,
\* the cache hit on a final file whose checksum is the descriptor's, the GET
CacheBegin(t) ==
    /\ task[t].pc = "begin"
    /\ task[t].kind # "fill"
    /\ \E o \in {"info_failed", "get_failed", "good", "bad"} :
          LET f == dir[task[t].plat].final
              hit == f # None /\ SHA256(content[f]) = DescriptorSHA
          IN  /\ task' = [task EXCEPT ![t] =
                    IF o = "info_failed" THEN PlatDone(@, NoSha)
                    ELSE IF hit THEN PlatDone(@, SHA256(content[f]))
                    ELSE IF o = "get_failed" THEN PlatDone(@, NoSha)
                    ELSE [@ EXCEPT !.pc = "create", !.body = o]]
              /\ upFault' = (upFault \/ o # "good")
    /\ UNCHANGED <<dir, content, provider, rows, ops>>
    /\ UNCHANGED exceptCache

\* one platform of asyncCacheProvider up to the GET of the binary: descriptor,
\* then DownloadAndStoreProvider, which returns any file already at the final path
StoreBegin(t) ==
    /\ task[t].pc = "begin"
    /\ task[t].kind = "fill"
    /\ \E o \in {"info_failed", "get_failed", "good", "bad"} :
          LET f == dir[task[t].plat].final
          IN  /\ task' = [task EXCEPT ![t] =
                    IF o = "info_failed" THEN PlatDone(@, NoSha)
                    ELSE IF f # None THEN PlatDone(@, SHA256(content[f]))
                    ELSE IF o = "get_failed" THEN PlatDone(@, NoSha)
                    ELSE [@ EXCEPT !.pc = "create", !.body = o]]
              /\ upFault' = (upFault \/ o # "good")
    /\ UNCHANGED <<dir, content, provider, rows, ops>>
    /\ UNCHANGED exceptCache

\* os.Create(filePath + ".tmp"): a new empty file, or the existing one truncated
CreateTemp(t) ==
    /\ task[t].pc = "create"
    /\ LET p == task[t].plat
           i == IF dir[p].tmp # None THEN dir[p].tmp ELSE FreshInode(dir, task)
       IN  /\ dir' = [dir EXCEPT ![p].tmp = i]
           /\ content' = [content EXCEPT ![i] = <<>>]
           /\ task' = [task EXCEPT ![t].pc = "copy", ![t].fd = i, ![t].off = 0]
    /\ UNCHANGED <<provider, rows, upFault, ops>>
    /\ UNCHANGED exceptCache

\* io.Copy, one chunk: written at this file's offset, or the copy fails and the
\* .tmp name is removed
CopyChunk(t) ==
    /\ task[t].pc = "copy"
    /\ task[t].off < NChunks
    /\ \E err \in BOOLEAN :
          LET p == task[t].plat
              k == task[t].off + 1
              nd == IF err THEN [dir EXCEPT ![p].tmp = None] ELSE dir
              nt == [task EXCEPT ![t] = IF err THEN PlatDone(@, NoSha)
                                                ELSE [@ EXCEPT !.off = k]]
              nc == IF err THEN content
                    ELSE [content EXCEPT ![task[t].fd] =
                             WriteAt(@, k, Body(task[t].body)[k])]
          IN  /\ dir' = nd
              /\ task' = nt
              /\ content' = Gc(nc, nd, nt)
              /\ upFault' = (upFault \/ err)
    /\ UNCHANGED <<provider, rows, ops>>
    /\ UNCHANGED exceptCache

\* the end of DownloadAndCacheProvider: compare the digest of the stream with the
\* descriptor's, remove .tmp on a mismatch, else rename .tmp to the final path
CacheFinish(t) ==
    /\ task[t].pc = "copy"
    /\ task[t].off = NChunks
    /\ task[t].kind # "fill"
    /\ LET p == task[t].plat
           calculatedSHA256 == SHA256(Body(task[t].body))
           match == calculatedSHA256 = DescriptorSHA
           renamed == match /\ dir[p].tmp # None
           nd == IF renamed THEN [dir EXCEPT ![p] = [final |-> dir[p].tmp, tmp |-> None]]
                 ELSE [dir EXCEPT ![p].tmp = None]
           nt == [task EXCEPT ![t] = PlatDone(@, IF renamed THEN calculatedSHA256 ELSE NoSha)]
       IN  /\ dir' = nd
           /\ task' = nt
           /\ content' = Gc(content, nd, nt)
    /\ UNCHANGED <<provider, rows, upFault, ops>>
    /\ UNCHANGED exceptCache

\* the end of DownloadAndStoreProvider: rename .tmp to the final path
StoreFinish(t) ==
    /\ task[t].pc = "copy"
    /\ task[t].off = NChunks
    /\ task[t].kind = "fill"
    /\ LET p == task[t].plat
           calculatedSHA256 == SHA256(Body(task[t].body))
           renamed == dir[p].tmp # None
           nd == IF renamed THEN [dir EXCEPT ![p] = [final |-> dir[p].tmp, tmp |-> None]]
                 ELSE dir
           nt == [task EXCEPT ![t] = PlatDone(@, IF renamed THEN calculatedSHA256 ELSE NoSha)]
       IN  /\ dir' = nd
           /\ task' = nt
           /\ content' = Gc(content, nd, nt)
    /\ UNCHANGED <<provider, rows, upFault, ops>>
    /\ UNCHANGED exceptCache

\* GetCachedFilePath: the first entry of the platform's directory that is not a
\* directory.  os.ReadDir returns the entries sorted by name, so the final file
\* comes before the ".tmp" file, whose name is the final name with a suffix
GetCachedFilePath(d, p) ==
    IF d[p].final # None THEN [path |-> "final", file |-> d[p].final, cached |-> TRUE]
    ELSE IF d[p].tmp # None THEN [path |-> "tmp", file |-> d[p].tmp, cached |-> TRUE]
    ELSE [path |-> "", file |-> None, cached |-> FALSE]

\* IsCached: GetCachedFilePath found a file
IsCached(d, p) == GetCachedFilePath(d, p).cached

\* the rows written after one platform: downloadAndSavePlatform and
\* downloadAndCacheFromUpstream create the platform row when there is none,
\* asyncCacheProvider always creates one
SaveRow(t) ==
    /\ task[t].pc = "saveRow"
    /\ LET p == task[t].plat
           sha == task[t].got[p]
       IN  rows' = [rows EXCEPT ![p] =
                      IF task[t].kind = "fill" THEN Append(@, sha)
                      ELSE IF @ = <<>> THEN <<sha>> ELSE @]
    /\ provider' = TRUE
    /\ task' = [task EXCEPT ![t] = NextPlat(@)]
    /\ UNCHANGED <<dir, content, upFault, ops>>
    /\ UNCHANGED exceptCache

\* saveMirroredProvider: getOrCreateProvider, then savePlatformEntry for every
\* downloaded platform (update the first row of the platform, or create one)
SaveAll(t) ==
    /\ task[t].pc = "saveAll"
    /\ rows' = [p \in Plats |->
                  IF task[t].got[p] = NoSha THEN rows[p]
                  ELSE IF rows[p] = <<>> THEN <<task[t].got[p]>>
                  ELSE [rows[p] EXCEPT ![1] = task[t].got[p]]]
    /\ provider' = TRUE
    /\ task' = [task EXCEPT ![t].pc = "done", ![t].result = "success"]
    /\ UNCHANGED <<dir, content, upFault, ops>>
    /\ UNCHANGED exceptCache

\* the handler or goroutine has returned
Release(t) ==
    /\ task[t].pc = "done"
    /\ task' = [task EXCEPT ![t] = IdleTask]
    /\ UNCHANGED <<dir, content, provider, rows, upFault, ops>>
    /\ UNCHANGED exceptCache

----------------------------------------------------------------------------
(* The shared ProxyService of the handlers: its proxy fields, its HTTP       *)
(* client and its mutex.  A request reads the Settings row, calls SetProxy   *)
(* with it and then calls upstream through p.httpClient.                     *)

Callers == 1..NCallers

ProxyURLs == {"", "p"}

ProxyTypes == {"http", "SOCKS5"}

Confs == [enabled : BOOLEAN, url : ProxyURLs, type : ProxyTypes]

\* the proxy fields NewProxyService leaves zero
NoConf == [enabled |-> FALSE, url |-> "", type |-> ""]

\* strings.ToLower
ToLower(s) == IF s = "SOCKS5" THEN "socks5" ELSE s

\* the client of NewProxyService: no transport of its own
DirectClient == [via |-> "direct", url |-> ""]

\* updateHTTPClient: the client built from the proxy fields
ClientFor(f) ==
    IF f.enabled /\ f.url # ""
    THEN IF ToLower(f.type) = "socks5"
         THEN [via |-> "socks5", url |-> f.url]
         ELSE [via |-> "http", url |-> f.url]
    ELSE [via |-> "transport", url |-> ""]

\* stale: the Settings row was changed after the handler had started
IdleCaller == [pc |-> "idle", args |-> NoConf, client |-> DirectClient, stale |-> FALSE]

\* SettingsHandler.UpdateSettings: the row is created or overwritten
UpdateSettings ==
    /\ \E conf \in Confs :
          LET row == [exists |-> TRUE, conf |-> conf]
          IN  /\ settings' = row
              /\ caller' = [c \in Callers |->
                               IF caller[c].pc # "idle" /\ row # settings
                               THEN [caller[c] EXCEPT !.stale = TRUE]
                               ELSE caller[c]]
    /\ UNCHANGED <<pfields, httpClient, mu>>
    /\ UNCHANGED exceptProxy

\* a handler starts: h.db.First(&settings), and SetProxy only when the row exists
BeginRequest(c) ==
    /\ caller[c].pc = "idle"
    /\ caller' = [caller EXCEPT ![c] =
          IF settings.exists THEN [@ EXCEPT !.pc = "lock", !.args = settings.conf]
          ELSE [@ EXCEPT !.pc = "call"]]
    /\ UNCHANGED <<settings, pfields, httpClient, mu>>
    /\ UNCHANGED exceptProxy

\* MirrorHandler.MirrorProvider starts: it calls upstream through h.proxyService
\* as it is, without reading the Settings row
BeginMirror(c) ==
    /\ caller[c].pc = "idle"
    /\ caller' = [caller EXCEPT ![c].pc = "call"]
    /\ UNCHANGED <<settings, pfields, httpClient, mu>>
    /\ UNCHANGED exceptProxy

\* Scheduler.runSync starts: its upstream calls go through the client of a
\* ProxyService it makes with NewProxyService
BeginRunSync(c) ==
    /\ caller[c].pc = "idle"
    /\ caller' = [caller EXCEPT ![c].pc = "get", ![c].client = DirectClient]
    /\ UNCHANGED <<settings, pfields, httpClient, mu>>
    /\ UNCHANGED exceptProxy

\* SetProxy: p.mu.Lock()
SetProxyLock(c) ==
    /\ caller[c].pc = "lock"
    /\ mu.writer = None
    /\ mu.readers = {}
    /\ mu' = [mu EXCEPT !.writer = c]
    /\ caller' = [caller EXCEPT ![c].pc = "fields"]
    /\ UNCHANGED <<settings, pfields, httpClient>>
    /\ UNCHANGED exceptProxy

\* SetProxy: the three proxy fields are assigned
SetProxyFields(c) ==
    /\ caller[c].pc = "fields"
    /\ pfields' = caller[c].args
    /\ caller' = [caller EXCEPT ![c].pc = "store"]
    /\ UNCHANGED <<settings, httpClient, mu>>
    /\ UNCHANGED exceptProxy

\* updateHTTPClient: the assignment to p.httpClient begins
BeginStore(c) ==
    /\ caller[c].pc = "store"
    /\ caller' = [caller EXCEPT ![c].pc = "storing"]
    /\ UNCHANGED <<settings, pfields, httpClient, mu>>
    /\ UNCHANGED exceptProxy

\* updateHTTPClient: the assignment to p.httpClient is done
EndStore(c) ==
    /\ caller[c].pc = "storing"
    /\ httpClient' = ClientFor(pfields)
    /\ caller' = [caller EXCEPT ![c].pc = "unlock"]
    /\ UNCHANGED <<settings, pfields, mu>>
    /\ UNCHANGED exceptProxy

\* SetProxy: the deferred p.mu.Unlock()
SetProxyUnlock(c) ==
    /\ caller[c].pc = "unlock"
    /\ mu' = [mu EXCEPT !.writer = None]
    /\ caller' = [caller EXCEPT ![c].pc = "call"]
    /\ UNCHANGED <<settings, pfields, httpClient>>
    /\ UNCHANGED exceptProxy

\* GetProviderVersions, GetProviderDownloadInfo: p.httpClient.Get begins to load
\* the field; no lock is taken
BeginRead(c) ==
    /\ caller[c].pc = "call"
    /\ caller' = [caller EXCEPT ![c].pc = "reading"]
    /\ UNCHANGED <<settings, pfields, httpClient, mu>>
    /\ UNCHANGED exceptProxy

\* the load of p.httpClient is done: the client the call goes through
EndRead(c) ==
    /\ caller[c].pc = "reading"
    /\ caller' = [caller EXCEPT ![c].pc = "get", ![c].client = httpClient]
    /\ UNCHANGED <<settings, pfields, httpClient, mu>>
    /\ UNCHANGED exceptProxy

\* the upstream call returns and the handler ends
EndRequest(c) ==
    /\ caller[c].pc = "get"
    /\ caller' = [caller EXCEPT ![c] = IdleCaller]
    /\ UNCHANGED <<settings, pfields, httpClient, mu>>
    /\ UNCHANGED exceptProxy

----------------------------------------------------------------------------
(* The sync schedules: the SyncSchedule rows, the API of SyncHandler, the   *)
(* scheduler's job map and the runSync goroutines cron starts.              *)

SchedIds == 1..NSched

Runs == 1..NRuns

\* the cron expressions an operator gives a schedule
CronExprs == {"x", "y"}

\* next_run_at: the expression whose next firing time it is ("" when nil) and
\* whether that time has passed
NoNext == [expr |-> "", past |-> FALSE]

NextFiring(expr) == [expr |-> expr, past |-> FALSE]

NoRow == [state |-> "absent", enabled |-> FALSE, cron |-> "", status |-> "", next |-> NoNext]

\* a soft-deleted row: no query of the program returns it or any of its fields
DeletedRow == [state |-> "deleted", enabled |-> FALSE, cron |-> "", status |-> "",
               next |-> NoNext]

FreeRun == [id |-> None, pc |-> "free", local |-> NoRow]

\* SyncHandler.CreateSchedule: a row with a new id
CreateSchedule(id) ==
    /\ sched[id].state = "absent"
    /\ \E enabled \in BOOLEAN, expr \in CronExprs :
          sched' = [sched EXCEPT ![id] =
                        [state |-> "present", enabled |-> enabled, cron |-> expr,
                         status |-> "", next |-> NextFiring(expr)]]
    /\ fresh' = FALSE
    /\ UNCHANGED <<jobs, entry, cronEntries, jobEntryID, run, trig>>
    /\ UNCHANGED exceptSched

\* SyncHandler.UpdateSchedule: the fields of the request replace the row's;
\* next_run_at is computed when the request has a cron_expr ("" when it has none)
UpdateSchedule(id) ==
    /\ sched[id].state = "present"
    /\ \E enabled \in BOOLEAN, expr \in CronExprs \cup {""} :
          sched' = [sched EXCEPT ![id] =
                      IF expr = ""
                      THEN [@ EXCEPT !.enabled = enabled]
                      ELSE [@ EXCEPT !.enabled = enabled, !.cron = expr,
                                     !.next = NextFiring(expr)]]
    /\ fresh' = FALSE
    /\ UNCHANGED <<jobs, entry, cronEntries, jobEntryID, run, trig>>
    /\ UNCHANGED exceptSched

\* SyncHandler.DeleteSchedule: soft delete
DeleteSchedule(id) ==
    /\ sched[id].state = "present"
    /\ sched' = [sched EXCEPT ![id] = DeletedRow]
    /\ trig' = [trig EXCEPT ![id] = FALSE]
    /\ fresh' = FALSE
    /\ UNCHANGED <<jobs, entry, cronEntries, jobEntryID, run>>
    /\ UNCHANGED exceptSched

\* SyncHandler.RunScheduleNow: the row is marked running and saved
RunScheduleNow(id) ==
    /\ sched[id].state = "present"
    /\ sched' = [sched EXCEPT ![id].status = "running"]
    /\ trig' = [trig EXCEPT ![id] = TRUE]
    /\ fresh' = FALSE
    /\ UNCHANGED <<jobs, entry, cronEntries, jobEntryID, run>>
    /\ UNCHANGED exceptSched

\* an expression the parser of cron.New() rejects: no request of SyncHandler
\* stores one, a row written to the database by anything else may hold one
BadExpr == "bad"

\* cron.AddFunc parses the expression with the standard parser
Parses(expr) == expr \in CronExprs

\* the zero cron.EntryID: no entry has it
NoEntryID == 0

\* the jobs of a scheduler without any: Scheduler.jobs and Scheduler.cron as New
\* makes them
NoJobs ==
    [jobs |-> {}, entry |-> [id \in SchedIds |-> ""], cron |-> {},
     ids |-> [id \in SchedIds |-> NoEntryID]]

\* the EntryID cron.AddFunc gives the next entry: cron numbers its entries
\* 1, 2, 3, ... and never gives a number twice; the scheduler only compares
\* the numbers, so the least number that no live entry and no value of the job
\* map holds stands for it
NewEntryID(st) ==
    LET used == {e.eid : e \in st.cron} \cup {st.ids[id] : id \in SchedIds}
    IN  CHOOSE n \in 1..(Cardinality(used) + 1) :
           /\ n \notin used
           /\ \A m \in 1..(n - 1) : m \in used

\* cron.Remove: the entry with that EntryID, if any, is no longer live
cronRemove(st, eid) == [st EXCEPT !.cron = {e \in @ : e.eid # eid}]

addJobRecordsFailed(st, id, expr) ==
    LET removed == IF id \in st.jobs THEN cronRemove(st, st.ids[id]) ELSE st
        eid == IF Parses(expr) THEN NewEntryID(removed) ELSE NoEntryID
    IN  [jobs |-> removed.jobs \cup {id},
         entry |-> [removed.entry EXCEPT ![id] = expr],
         cron |-> IF Parses(expr) THEN removed.cron \cup {[eid |-> eid, sid |-> id]}
                                  ELSE removed.cron,
         ids |-> [removed.ids EXCEPT ![id] = eid]]

\* Scheduler.addJob: the entry the map keeps for the id, if any, is removed;
\* cron.AddFunc then fails on an expression that does not parse and addJob
\* returns with the map as it was, else the new entry runs runSync of the id
\* and the map keeps its EntryID under the id
addJob(st, id, expr) ==
    LET removed == IF id \in st.jobs THEN cronRemove(st, st.ids[id]) ELSE st
        entryID == NewEntryID(removed)
    IN  IF ~Parses(expr)
        THEN removed
        ELSE [jobs |-> removed.jobs \cup {id},
              entry |-> [removed.entry EXCEPT ![id] = expr],
              cron |-> removed.cron \cup {[eid |-> entryID, sid |-> id]},
              ids |-> [removed.ids EXCEPT ![id] = entryID]]

\* Scheduler.removeJob
removeJob(st, id) ==
    IF id \in st.jobs
    THEN [jobs |-> st.jobs \ {id}, entry |-> [st.entry EXCEPT ![id] = ""],
          cron |-> cronRemove(st, st.ids[id]).cron,
          ids |-> [st.ids EXCEPT ![id] = NoEntryID]]
    ELSE st

\* the loop of loadSchedules over the enabled rows
RECURSIVE loadLoop(_, _, _)
loadLoop(st, table, todo) ==
    IF todo = {} THEN st
    ELSE LET id == CHOOSE i \in todo : TRUE
         IN  loadLoop(addJob(st, id, table[id].cron), table, todo \ {id})

\* Scheduler.loadSchedules, called by Start: a job for every enabled row whose
\* expression parses
loadSchedules(table) ==
    loadLoop(NoJobs, table,
             {id \in SchedIds : table[id].state = "present" /\ table[id].enabled})

\* the first loop of refreshSchedules over the rows it read
RECURSIVE refreshLoop(_, _, _)
refreshLoop(st, table, todo) ==
    IF todo = {} THEN st
    ELSE LET id == CHOOSE i \in todo : TRUE
             nxt == IF table[id].enabled
                    THEN IF id \in st.jobs THEN st ELSE addJob(st, id, table[id].cron)
                    ELSE removeJob(st, id)
         IN  refreshLoop(nxt, table, todo \ {id})

refreshSchedulesKeepGone(st, table) ==
    refreshLoop(st, table, {id \in SchedIds : table[id].state = "present"})

\* Scheduler.refreshSchedules on the rows db.Find returned: the loop over the
\* rows, then the removal of the jobs whose row is no longer in the table
refreshSchedules(st, table) ==
    LET currentIDs == {id \in SchedIds : table[id].state = "present"}
        looped == refreshLoop(st, table, currentIDs)
        gone == {id \in looped.jobs : id \notin currentIDs}
    IN  [jobs |-> looped.jobs \ gone,
         entry |-> [id \in SchedIds |-> IF id \in gone THEN "" ELSE looped.entry[id]],
         cron |-> {e \in looped.cron : \A id \in gone : e.eid # looped.ids[id]},
         ids |-> [id \in SchedIds |-> IF id \in gone THEN NoEntryID ELSE looped.ids[id]]]

\* the jobs of the scheduler as the variables hold them
Jobs == [jobs |-> jobs, entry |-> entry, cron |-> cronEntries, ids |-> jobEntryID]

\* the ticker of watchForChanges, every 30 seconds; addJob writes the Next of
\* the entry it registered to next_run_at of the row
RefreshSchedules ==
    /\ LET st == refreshSchedules(Jobs, sched)
       IN  /\ jobs' = st.jobs
           /\ entry' = st.entry
           /\ cronEntries' = st.cron
           /\ jobEntryID' = st.ids
           /\ sched' = [id \in SchedIds |->
                          IF id \in st.jobs \ jobs
                          THEN [sched[id] EXCEPT !.next = NextFiring(st.entry[id])]
                          ELSE sched[id]]
    /\ fresh' = TRUE
    /\ UNCHANGED <<run, trig>>
    /\ UNCHANGED exceptSched

\* the time an entry fires has come: a next_run_at naming it is in the past now
Elapsed(row, expr) ==
    IF row.state = "present" /\ row.next.expr = expr
    THEN [row EXCEPT !.next.past = TRUE]
    ELSE row

\* cron fires a live entry: the runSync of its schedule id starts on a goroutine
\* of its own
CronFire(id, r) ==
    /\ \E e \in cronEntries : e.sid = id
    /\ run[r].pc = "free"
    /\ \A q \in Runs : q < r => run[q].pc # "free"
    /\ run' = [q \in Runs |->
                 IF q = r THEN [id |-> id, pc |-> "load", local |-> NoRow]
                 ELSE IF run[q].id = id
                 THEN [run[q] EXCEPT !.local = Elapsed(@, entry[id])]
                 ELSE run[q]]
    /\ sched' = [sched EXCEPT ![id] = Elapsed(@, entry[id])]
    /\ UNCHANGED <<jobs, entry, cronEntries, jobEntryID, fresh, trig>>
    /\ UNCHANGED exceptSched

\* runSync: load the row, or return when it is gone; mark it running and save
RunSyncLoad(r) ==
    /\ run[r].pc = "load"
    /\ LET id == run[r].id
           found == sched[id].state = "present"
           row == [sched[id] EXCEPT !.status = "running"]
       IN  /\ run' = [run EXCEPT ![r] = IF found THEN [@ EXCEPT !.pc = "mirror", !.local = row]
                                                ELSE FreeRun]
           /\ sched' = [sched EXCEPT ![id] = IF found THEN row ELSE @]
    /\ fresh' = FALSE
    /\ UNCHANGED <<jobs, entry, cronEntries, jobEntryID, trig>>
    /\ UNCHANGED exceptSched

\* runSync: mirrorProvider returned; its error decides the status
RunSyncMirror(r) ==
    /\ run[r].pc = "mirror"
    /\ \E err \in BOOLEAN :
          run' = [run EXCEPT ![r].pc = "save",
                             ![r].local.status = IF err THEN "failed" ELSE "success"]
    /\ UNCHANGED <<sched, jobs, entry, cronEntries, jobEntryID, fresh, trig>>
    /\ UNCHANGED exceptSched

\* runSync: NextRunAt from the entry when the id is in s.jobs, then the final
\* s.db.Save(&schedule) of the row as it was loaded
RunSyncSave(r) ==
    /\ run[r].pc = "save"
    /\ sched' = [sched EXCEPT ![run[r].id] =
                    IF @.state # "present" THEN @
                    ELSE IF run[r].id \in jobs
                    THEN [run[r].local EXCEPT !.next = NextFiring(entry[run[r].id])]
                    ELSE run[r].local]
    /\ run' = [run EXCEPT ![r] = FreeRun]
    /\ fresh' = FALSE
    /\ UNCHANGED <<jobs, entry, cronEntries, jobEntryID, trig>>
    /\ UNCHANGED exceptSched

----------------------------------------------------------------------------
(* The registry database as the download and archive endpoints see it: the   *)
(* Provider row of one version with its download counter, its                *)
(* ProviderPlatform rows, and the handlers DownloadProvider and              *)
(* GetVersionArchives.  The download itself is the cache store's above; here *)
(* it succeeds or fails as a whole.                                          *)

Reqs == 1..NReqs

NoPlatform == [row |-> FALSE, sha |-> "", file |-> FALSE]

\* sha256sum values of a row: empty, or a digest
Shas == {"", "h"}

IdleReq == [pc |-> "idle", plat |-> 1, file |-> FALSE, resp |-> "none"]

IdleArch == [pc |-> "idle", allow |-> TRUE, up |-> {}, local |-> [p \in Plats |-> NoPlatform],
             resp |-> [status |-> "none", platforms |-> {}, hashes |-> {}]]

\* SettingsHandler.UpdateSettings: allow_online_search
SetAllowOnline ==
    /\ \E b \in BOOLEAN : allowOnline' = b
    /\ UNCHANGED <<dbProvider, dbPlatform, req, served, archives, index>>
    /\ UNCHANGED exceptServe

\* Handler.CreateProvider: the Provider of the request body and the platform rows
\* in it are inserted as they are, whatever file_path and sha256sum they carry
CreateProvider ==
    /\ ~dbProvider.exists
    /\ \E p \in Plats, sha \in Shas, file \in BOOLEAN :
          dbPlatform' = [dbPlatform EXCEPT ![p] = [row |-> TRUE, sha |-> sha, file |-> file]]
    /\ dbProvider' = [dbProvider EXCEPT !.exists = TRUE]
    /\ UNCHANGED <<allowOnline, req, served, archives, index>>
    /\ UNCHANGED exceptServe

\* MirrorHandler.ImportProvider, one platform of the manifest: the file is
\* extracted and saveImportedPlatform writes the manifest's sha256sum to the row
ImportProvider ==
    /\ \E p \in Plats, sha \in Shas :
          dbPlatform' = [dbPlatform EXCEPT ![p] = [row |-> TRUE, sha |-> sha, file |-> TRUE]]
    /\ dbProvider' = [dbProvider EXCEPT !.exists = TRUE]
    /\ UNCHANGED <<allowOnline, req, served, archives, index>>
    /\ UNCHANGED exceptServe

\* MirrorHandler.DownloadProvider up to its branch: settings, provider row,
\* platform row
DownloadProvider(r, p) ==
    /\ req[r].pc = "idle"
    /\ dbProvider.downloads + Cardinality({q \in Reqs : req[q].pc # "idle"}) < MaxServes
    /\ LET found == dbProvider.exists /\ dbPlatform[p].row
       IN  req' = [req EXCEPT ![r] =
                     IF found
                     THEN [pc |-> "inc", plat |-> p, file |-> dbPlatform[p].file, resp |-> "none"]
                     ELSE IF ~allowOnline
                     THEN [pc |-> "done", plat |-> p, file |-> FALSE, resp |-> "404"]
                     ELSE [pc |-> "fetch", plat |-> p, file |-> FALSE, resp |-> "none"]]
    /\ UNCHANGED <<allowOnline, dbProvider, dbPlatform, served, archives, index>>
    /\ UNCHANGED exceptServe

\* downloadAndCacheFromUpstream: GetProviderDownloadInfo and DownloadAndCacheProvider
DownloadFetch(r) ==
    /\ req[r].pc = "fetch"
    /\ \E o \in {"info_failed", "cache_failed", "ok"} :
          req' = [req EXCEPT ![r] =
                     IF o = "info_failed" THEN [@ EXCEPT !.pc = "done", !.resp = "404"]
                     ELSE IF o = "cache_failed" THEN [@ EXCEPT !.pc = "done", !.resp = "500"]
                     ELSE [@ EXCEPT !.pc = "record", !.file = TRUE]]
    /\ UNCHANGED <<allowOnline, dbProvider, dbPlatform, served, archives, index>>
    /\ UNCHANGED exceptServe

\* downloadAndCacheFromUpstream: the provider row and the platform row are created
\* when missing
DownloadRecord(r) ==
    /\ req[r].pc = "record"
    /\ dbProvider' = [dbProvider EXCEPT !.exists = TRUE]
    /\ dbPlatform' = [dbPlatform EXCEPT ![req[r].plat] =
                         IF @.row THEN @ ELSE [row |-> TRUE, sha |-> "h", file |-> TRUE]]
    /\ req' = [req EXCEPT ![r].pc = "inc"]
    /\ UNCHANGED <<allowOnline, served, archives, index>>
    /\ UNCHANGED exceptServe

\* UPDATE providers SET downloads = downloads + 1
DownloadCount(r) ==
    /\ req[r].pc = "inc"
    /\ dbProvider' = [dbProvider EXCEPT !.downloads = @ + 1]
    /\ req' = [req EXCEPT ![r].pc = "serve"]
    /\ UNCHANGED <<allowOnline, dbPlatform, served, archives, index>>
    /\ UNCHANGED exceptServe

\* c.File: the bytes of the file, or 404 when there is no file at the path
DownloadServe(r) ==
    /\ req[r].pc = "serve"
    /\ req' = [req EXCEPT ![r].pc = "done",
                          ![r].resp = IF req[r].file THEN "bytes" ELSE "404"]
    /\ served' = IF req[r].file THEN served + 1 ELSE served
    /\ UNCHANGED <<allowOnline, dbProvider, dbPlatform, archives, index>>
    /\ UNCHANGED exceptServe

\* the handler has answered
DownloadEnd(r) ==
    /\ req[r].pc = "done"
    /\ req' = [req EXCEPT ![r] = IdleReq]
    /\ UNCHANGED <<allowOnline, dbProvider, dbPlatform, served, archives, index>>
    /\ UNCHANGED exceptServe

buildLocalArchivesAllHashed(local) ==
    [status |-> "200",
     platforms |-> {p \in Plats : local[p].row},
     hashes |-> {p \in Plats : local[p].row}]

\* buildLocalArchives: an archive per local row, with a hash when the row has one
buildLocalArchives(local) ==
    [status |-> "200",
     platforms |-> {p \in Plats : local[p].row},
     hashes |-> {p \in Plats : local[p].row /\ local[p].sha # ""}]

\* the response of GetVersionArchives from the setting, the platforms upstream
\* lists for the version (none on an error) and the local rows
versionArchives(allow, upstream, local) ==
    LET upstreamPlatforms == IF allow THEN upstream ELSE {}
        localPlatforms == {p \in Plats : local[p].row}
    IN  IF upstreamPlatforms = {} /\ localPlatforms = {}
        THEN [status |-> "404", platforms |-> {}, hashes |-> {}]
        ELSE IF upstreamPlatforms # {}
        THEN [status |-> "200",
              platforms |-> upstreamPlatforms,
              hashes |-> {p \in upstreamPlatforms : local[p].row /\ local[p].sha # ""}]
        ELSE buildLocalArchives(local)

\* ProviderMirrorHandler.GetVersionArchives
GetVersionArchives ==
    /\ archives.pc = "idle"
    /\ \E up \in SUBSET Plats :
          archives' = [pc |-> "done", allow |-> allowOnline, up |-> up, local |-> dbPlatform,
                   resp |-> versionArchives(allowOnline, up, dbPlatform)]
    /\ UNCHANGED <<allowOnline, dbProvider, dbPlatform, req, served, index>>
    /\ UNCHANGED exceptServe

\* the response is sent
ArchivesEnd ==
    /\ archives.pc = "done"
    /\ archives' = IdleArch
    /\ UNCHANGED <<allowOnline, dbProvider, dbPlatform, req, served, index>>
    /\ UNCHANGED exceptServe

\* versions of the provider: version 1 is the one dbProvider and dbPlatform
\* describe, the others have Provider rows of their own or exist upstream only
Versions == 1..NVers

IdleIndex == [pc |-> "idle", valid |-> TRUE, allow |-> TRUE, local |-> {},
              up |-> [ok |-> FALSE, versions |-> {}],
              resp |-> [status |-> "none", versions |-> {}, contacted |-> FALSE]]

listAvailableVersionsNoLocal(valid, allow, up, local) ==
    IF ~valid
    THEN [status |-> "400", versions |-> {}, contacted |-> FALSE]
    ELSE LET versions == IF allow /\ up.ok THEN up.versions ELSE local
         IN  [status |-> IF versions = {} THEN "404" ELSE "200",
              versions |-> versions,
              contacted |-> allow]

\* the response of ListAvailableVersions and whether GetProviderVersions was
\* called, from the validity of the parameters, the setting, upstream's answer
\* and the versions of the local Provider rows
listAvailableVersions(valid, allow, up, local) ==
    IF ~valid
    THEN [status |-> "400", versions |-> {}, contacted |-> FALSE]
    ELSE LET versions == IF allow /\ up.ok THEN local \cup up.versions ELSE local
         IN  [status |-> IF versions = {} THEN "404" ELSE "200",
              versions |-> versions,
              contacted |-> allow]

\* ProviderMirrorHandler.ListAvailableVersions
ListAvailableVersions ==
    /\ index.pc = "idle"
    /\ \E valid \in BOOLEAN, others \in SUBSET (Versions \ {1}),
          up \in [ok : BOOLEAN, versions : SUBSET Versions] :
          LET local == (IF dbProvider.exists THEN {1} ELSE {}) \cup others
          IN  index' = [pc |-> "done", valid |-> valid, allow |-> allowOnline,
                        local |-> local, up |-> up,
                        resp |-> listAvailableVersions(valid, allowOnline, up, local)]
    /\ UNCHANGED <<allowOnline, dbProvider, dbPlatform, req, served, archives>>
    /\ UNCHANGED exceptServe

\* the response is sent
IndexEnd ==
    /\ index.pc = "done"
    /\ index' = IdleIndex
    /\ UNCHANGED <<allowOnline, dbProvider, dbPlatform, req, served, archives>>
    /\ UNCHANGED exceptServe

----------------------------------------------------------------------------
(* MirrorHandler.MirrorProviderWithProgress: the handler, the events it      *)
(* sends over the response, the subscriber reading them, and the cache files *)
(* and rows the mirror leaves.  A download succeeds or fails as a whole.     *)

\* MirrorProgress: type, current, percent
Event(type, current, percent) == <<type, current, percent>>

IdleStream == [pc |-> "idle", connected |-> TRUE, total |-> 0, i |-> 0,
               outcome |-> <<>>, mirroredPlatforms |-> <<>>, saved |-> FALSE,
               emitted |-> <<>>, buf |-> <<>>, delivered |-> <<>>]

sendProgressAbortsWhenGone(st, e) ==
    IF st.connected
    THEN [st EXCEPT !.emitted = Append(@, e), !.delivered = Append(@, e)]
    ELSE [st EXCEPT !.pc = "done"]

sendProgressNoFlush(st, e) ==
    [st EXCEPT !.emitted = Append(@, e), !.buf = Append(@, e)]

\* sendProgress: c.SSEvent writes the event to the response, c.Writer.Flush
\* sends what was written; a subscriber that is gone receives nothing and the
\* handler is not told
sendProgress(st, e) ==
    LET written == Append(st.buf, e)
    IN  [st EXCEPT !.emitted = Append(@, e),
                   !.buf = <<>>,
                   !.delivered = IF st.connected THEN @ \o written ELSE @]

\* MirrorProviderWithProgress up to the version lookup
MirrorProviderWithProgress ==
    /\ stream.pc = "idle"
    /\ \E valid \in BOOLEAN, proxyURL \in BOOLEAN :
          stream' =
              IF ~valid
              THEN [sendProgress(stream, Event("error", 0, 0)) EXCEPT !.pc = "done"]
              ELSE LET st == IF proxyURL
                             THEN sendProgress(stream, Event("progress", 0, 0))
                             ELSE stream
                   IN  [sendProgress(st, Event("progress", 0, 0)) EXCEPT !.pc = "fetch"]
    /\ UNCHANGED mirrored
    /\ UNCHANGED exceptStream

\* fetchPlatformsToMirror and the "Found %d platforms" event: upstream fails,
\* lists no version or no matching platform, or gives the platforms 1..total
StreamFetchPlatforms ==
    /\ stream.pc = "fetch"
    /\ \E total \in 0..NPlat :
          stream' =
              IF total = 0
              THEN [sendProgress(stream, Event("error", 0, 0)) EXCEPT !.pc = "done"]
              ELSE [sendProgress(stream, Event("progress", 0, 0))
                       EXCEPT !.pc = "loop", !.total = total, !.i = 0]
    /\ UNCHANGED mirrored
    /\ UNCHANGED exceptStream

\* downloadPlatformsWithProgress, one iteration up to the download: the
\* "Downloading" event of platform i + 1
StreamDownloadBegin ==
    /\ stream.pc = "loop"
    /\ stream.i < stream.total
    /\ stream' = [sendProgress(stream,
                      Event("progress", stream.i + 1, (stream.i * 100) \div stream.total))
                    EXCEPT !.pc = "download"]
    /\ UNCHANGED mirrored
    /\ UNCHANGED exceptStream

\* downloadPlatformsWithProgress, the rest of the iteration:
\* DownloadAndCacheProvider, then the "Failed" event, or the "Downloaded" event
\* and the append to mirroredPlatforms
StreamDownloadPlatform ==
    /\ stream.pc = "download"
    /\ \E ok \in BOOLEAN :
          LET plat == stream.i + 1
              st == [stream EXCEPT !.pc = "loop", !.i = plat,
                                   !.outcome = Append(@, ok),
                                   !.mirroredPlatforms = IF ok THEN Append(@, plat) ELSE @]
          IN  /\ stream' = IF ok
                           THEN sendProgress(st, Event("progress", plat,
                                                       (plat * 100) \div stream.total))
                           ELSE sendProgress(st, Event("progress", plat, 0))
              /\ mirrored' = IF ok THEN [mirrored EXCEPT !.files = @ \cup {plat}]
                                   ELSE mirrored
    /\ UNCHANGED exceptStream

\* MirrorProviderWithProgress after the loop: the error event when nothing was
\* mirrored, else saveMirroredProvider and the error or the complete event
StreamSave ==
    /\ stream.pc = "loop"
    /\ stream.i = stream.total
    /\ IF stream.mirroredPlatforms = <<>>
       THEN /\ stream' = [sendProgress(stream, Event("error", 0, 0)) EXCEPT !.pc = "done"]
            /\ UNCHANGED mirrored
       ELSE \E saveOk \in BOOLEAN :
               IF saveOk
               THEN /\ stream' = [sendProgress(stream, Event("complete", stream.total, 100))
                                    EXCEPT !.pc = "done", !.saved = TRUE]
                    /\ mirrored' = [mirrored EXCEPT !.rows = @ \cup
                          {stream.mirroredPlatforms[k] : k \in DOMAIN stream.mirroredPlatforms}]
               ELSE /\ stream' = [sendProgress(stream, Event("error", 0, 0))
                                    EXCEPT !.pc = "done"]
                    /\ UNCHANGED mirrored
    /\ UNCHANGED exceptStream

\* the handler returns and the response ends
StreamEnd ==
    /\ stream.pc = "done"
    /\ stream' = IdleStream
    /\ UNCHANGED mirrored
    /\ UNCHANGED exceptStream

\* the subscriber closes the connection
StreamDisconnect ==
    /\ stream.pc \notin {"idle", "done"}
    /\ stream.connected
    /\ stream' = [stream EXCEPT !.connected = FALSE]
    /\ UNCHANGED mirrored
    /\ UNCHANGED exceptStream

----------------------------------------------------------------------------
(* Platform resolution: Scheduler.getPlatformsToMirror and the mirror       *)
(* handler's fetchPlatformsToMirror with getPlatformsForVersion, applied to *)
(* the answer of GetProviderVersions.                                       *)

\* the platforms of the lists drawn
OSArch == {[os |-> "linux", arch |-> "amd64"], [os |-> "linux", arch |-> "arm64"],
           [os |-> "darwin", arch |-> "amd64"]}

\* platform lists: every ordering of every subset of OSArch
PlatformLists ==
    {s \in UNION {[1..k -> OSArch] : k \in 0..Cardinality(OSArch)} :
        \A a, b \in DOMAIN s : a # b => s[a] # s[b]}

VersionNames == {"1.0", "2.0"}

\* answers of GetProviderVersions: an error, or a list of versions with their
\* platforms
UpstreamAnswers ==
    {[ok |-> FALSE, versions |-> <<>>]} \cup
    {[ok |-> TRUE, versions |-> vs] :
        vs \in UNION {[1..k -> [version : VersionNames, platforms : PlatformLists]] :
                         k \in 0..MaxUpstream}}

\* version ("" when none is asked for), os and arch filters of a resolution
ResolveRequests ==
    [version : VersionNames \cup {""}, osType : {"all", "linux", "darwin"},
     arch : {"all", "amd64", "arm64"}]

NoResolution == [err |-> "unset", platforms |-> <<>>, version |-> ""]

ResolveError(msg) == [err |-> msg, platforms |-> <<>>, version |-> ""]

IdleResolve == [up |-> [ok |-> FALSE, versions |-> <<>>],
                rq |-> [version |-> "", osType |-> "all", arch |-> "all"],
                scheduler |-> NoResolution, handler |-> NoResolution]

\* the platforms of the first entry of versions whose version is the one
\* asked for that pass the filters, in the order of the entry
filterVersion(versions, version, osType, arch) ==
    LET at == {k \in DOMAIN versions : versions[k].version = version}
    IN  IF at = {}
        THEN <<>>
        ELSE LET k == CHOOSE k \in at : \A j \in at : k <= j
             IN  SelectSeq(versions[k].platforms,
                           LAMBDA p : (osType = "all" \/ osType = p.os)
                                      /\ (arch = "all" \/ arch = p.arch))

getPlatformsForVersionOSOnly(versions, version, osType, arch) ==
    LET v == IF version = "" /\ Len(versions) > 0 THEN versions[1].version ELSE version
    IN  [platforms |-> filterVersion(versions, v, osType, "all"), version |-> v]

\* getPlatformsForVersion of the mirror handler
getPlatformsForVersion(versions, version, osType, arch) ==
    LET v == IF version = "" /\ Len(versions) > 0 THEN versions[1].version ELSE version
    IN  [platforms |-> filterVersion(versions, v, osType, arch), version |-> v]

\* MirrorHandler.fetchPlatformsToMirror
fetchPlatformsToMirror(up, version, osType, arch) ==
    IF ~up.ok THEN ResolveError("failed to get versions")
    ELSE IF Len(up.versions) = 0 THEN ResolveError("no versions available")
    ELSE LET r == getPlatformsForVersion(up.versions, version, osType, arch)
         IN  IF Len(r.platforms) = 0
             THEN ResolveError("no matching platforms found")
             ELSE [err |-> "", platforms |-> r.platforms, version |-> r.version]

\* Scheduler.getPlatformsToMirror
getPlatformsToMirror(up, version, osType, arch) ==
    IF ~up.ok THEN ResolveError("failed to get versions")
    ELSE IF Len(up.versions) = 0 THEN ResolveError("no versions available")
    ELSE LET v == IF version = "" THEN up.versions[1].version ELSE version
             platforms == filterVersion(up.versions, v, osType, arch)
         IN  IF Len(platforms) = 0
             THEN ResolveError("no matching platforms found")
             ELSE [err |-> "", platforms |-> platforms, version |-> v]

\* the scheduler resolves the platforms of a run
ResolveInScheduler ==
    /\ resolve.scheduler = NoResolution
    /\ resolve' = [resolve EXCEPT !.scheduler =
          getPlatformsToMirror(resolve.up, resolve.rq.version, resolve.rq.osType,
                               resolve.rq.arch)]
    /\ UNCHANGED exceptResolve

\* the mirror handler resolves the platforms of a request
ResolveInHandler ==
    /\ resolve.handler = NoResolution
    /\ resolve' = [resolve EXCEPT !.handler =
          fetchPlatformsToMirror(resolve.up, resolve.rq.version, resolve.rq.osType,
                                 resolve.rq.arch)]
    /\ UNCHANGED exceptResolve

----------------------------------------------------------------------------
(* Export and import: ExportProvider packs the platform rows of a provider  *)
(* whose files exist into an archive with a manifest; ImportProvider reads  *)
(* an archive into another instance.  The archive may have lost or damaged  *)
(* members on its way.                                                      *)

\* sha256sum values of the exported rows
Sums == {"g", "h"}

\* a platform of the exporting instance: without a row, with a row whose file
\* is gone, or cached, its file at most 500MB or larger
NoSource == [row |-> FALSE, sha |-> "", file |-> FALSE, big |-> FALSE]

SourcePlatforms ==
    {NoSource} \cup [row : {TRUE}, sha : Sums, file : {FALSE}, big : {FALSE}]
               \cup [row : {TRUE}, sha : Sums, file : {TRUE}, big : BOOLEAN]

NoPackage == [made |-> FALSE, source |-> [p \in Plats |-> NoSource], manifest |-> <<>>]

\* the archive ExportProvider builds from the rows of a provider: a member and a
\* manifest entry for every row whose file exists; none when there is no such row
exportProvider(source) ==
    LET included == SelectSeq([p \in Plats |-> p],
                              LAMBDA p : source[p].row /\ source[p].file)
    IN  IF included = <<>>
        THEN NoPackage
        ELSE [made |-> TRUE, source |-> source,
              manifest |-> [k \in DOMAIN included |->
                              [plat |-> included[k], sha |-> source[included[k]].sha,
                               big |-> source[included[k]].big]]]

\* MirrorHandler.ExportProvider on some provider of the exporting instance
ExportProvider ==
    /\ imp.pc = "idle"
    /\ \E source \in [Plats -> SourcePlatforms] :
          /\ exportProvider(source).made
          /\ package' = exportProvider(source)
    /\ UNCHANGED <<imp, dest>>
    /\ UNCHANGED exceptImport

IdleImport == [pc |-> "idle", k |-> 0, manifest |-> <<>>,
               members |-> [p \in Plats |-> "intact"], empty |-> FALSE,
               imported |-> <<>>, skipped |-> {}, failed |-> {}, resp |-> "none"]

NoDestRow == [exists |-> FALSE, sha |-> ""]

\* the SHA-256 of the bytes at a final path of the importing instance: of no
\* file, of a file written in part, of bytes that are not the exported ones
NoSum == ""

PartialSum == "p"

AlteredSum == "z"

\* ImportProvider up to the extraction: the upload is saved and opened, the
\* manifest is read, the Provider row is found or created.  A member of the
\* archive is intact, missing, cannot be opened, or has bytes that are not the
\* ones the manifest's sha256sum was recorded for
ImportBegin ==
    /\ imp.pc = "idle"
    /\ package.made
    /\ \E members \in [Plats -> {"intact", "missing", "unopenable", "altered"}] :
          imp' = [IdleImport EXCEPT !.pc = "extract", !.k = 1,
                                    !.manifest = package.manifest,
                                    !.members = members,
                                    !.empty = (~dest.provider /\ \A p \in Plats :
                                                  ~dest.row[p].exists /\ dest.file[p] = "none")]
    /\ dest' = [dest EXCEPT !.provider = TRUE]
    /\ UNCHANGED package
    /\ UNCHANGED exceptImport

\* extractPlatformsFromZip, one manifest entry up to the copy: findFileInZip and
\* the size cap, then extractZipFile's os.Create of the final path and
\* zipFile.Open
ImportExtract ==
    /\ imp.pc = "extract"
    /\ imp.k <= Len(imp.manifest)
    /\ LET pm == imp.manifest[imp.k]
           p == pm.plat
       IN  IF imp.members[p] = "missing" \/ pm.big
           THEN /\ imp' = [imp EXCEPT !.k = @ + 1, !.skipped = @ \cup {p}]
                /\ UNCHANGED dest
           ELSE IF imp.members[p] = "unopenable"
           THEN /\ imp' = [imp EXCEPT !.k = @ + 1, !.failed = @ \cup {p}]
                /\ dest' = [dest EXCEPT !.file[p] = "partial", !.sum[p] = PartialSum]
           ELSE /\ imp' = [imp EXCEPT !.pc = "copy"]
                /\ dest' = [dest EXCEPT !.file[p] = "partial", !.sum[p] = PartialSum]
    /\ UNCHANGED package
    /\ UNCHANGED exceptImport

saveImportedPlatformNoSum(row, pm) == [exists |-> TRUE, sha |-> ""]

\* saveImportedPlatform: the row of the platform is updated, or created, with
\* the manifest's sha256sum
saveImportedPlatform(row, pm) == [exists |-> TRUE, sha |-> pm.sha]

\* extractZipFile's io.Copy and what follows: on an error the file is removed
\* and the entry skipped, else saveImportedPlatform and the append to
\* importedPlatforms
ImportCopy ==
    /\ imp.pc = "copy"
    /\ LET pm == imp.manifest[imp.k]
           p == pm.plat
       IN  \E err \in BOOLEAN :
              IF err
              THEN /\ imp' = [imp EXCEPT !.pc = "extract", !.k = @ + 1,
                                         !.failed = @ \cup {p}]
                   /\ dest' = [dest EXCEPT !.file[p] = "none", !.sum[p] = NoSum]
              ELSE /\ imp' = [imp EXCEPT !.pc = "extract", !.k = @ + 1,
                                         !.imported = Append(@, p)]
                   /\ dest' = [dest EXCEPT !.file[p] = "complete",
                                           !.sum[p] = IF imp.members[p] = "altered"
                                                      THEN AlteredSum ELSE pm.sha,
                                           !.row[p] = saveImportedPlatform(@, pm)]
    /\ UNCHANGED package
    /\ UNCHANGED exceptImport

importStatusAlwaysOK(importedPlatforms) == "200"

\* ImportProvider after the extraction: 400 when no platform was imported
importStatus(importedPlatforms) ==
    IF Len(importedPlatforms) = 0 THEN "400" ELSE "200"

\* ImportProvider answers
ImportEnd ==
    /\ imp.pc = "extract"
    /\ imp.k > Len(imp.manifest)
    /\ imp' = [imp EXCEPT !.pc = "done", !.resp = importStatus(imp.imported)]
    /\ UNCHANGED <<package, dest>>
    /\ UNCHANGED exceptImport

\* the handler has returned
ImportReturn ==
    /\ imp.pc = "done"
    /\ imp' = IdleImport
    /\ UNCHANGED <<package, dest>>
    /\ UNCHANGED exceptImport

----------------------------------------------------------------------------
(* The life of one provider version: its Provider row, which DeleteProvider  *)
(* soft-deletes, its platform rows and its files, under upload, mirror,      *)
(* scheduled sync, import and delete.  A download or an extraction succeeds  *)
(* or fails as a whole.                                                      *)

NoPlats == [p \in Plats |-> FALSE]

NoCoord == [provider |-> "absent", row |-> NoPlats, file |-> NoPlats, orphan |-> NoPlats]

IdleLife == [pc |-> "idle", op |-> "none", status |-> "none", fault |-> FALSE]

Answer(op, status, fault) == [pc |-> "done", op |-> op, status |-> status, fault |-> fault]

\* getOrCreateProvider, and the same lookup-then-create of UploadProvider and
\* getOrCreateImportedProvider: First does not return a soft-deleted row, and
\* Create of the same (namespace, name, version) violates idx_provider, which
\* the soft-deleted row, still in the table, occupies
getOrCreateProvider(state) ==
    IF state = "deleted"
    THEN [ok |-> FALSE, state |-> state]
    ELSE [ok |-> TRUE, state |-> "present"]

\* MirrorHandler.UploadProvider of platform p: SaveUploadedProvider, the Provider
\* row, the platform row
UploadProvider(p) ==
    /\ lifeOp.pc = "idle"
    /\ \E saved \in BOOLEAN :
          LET provider_ == getOrCreateProvider(coord.provider)
          IN  IF ~saved
              THEN /\ lifeOp' = Answer("upload", "500", TRUE)
                   /\ UNCHANGED coord
              ELSE IF ~provider_.ok
              THEN /\ lifeOp' = Answer("upload", "500", FALSE)
                   /\ coord' = [coord EXCEPT !.file[p] = TRUE]
              ELSE /\ lifeOp' = Answer("upload", "201", FALSE)
                   /\ coord' = [coord EXCEPT !.provider = provider_.state,
                                             !.file[p] = TRUE, !.row[p] = TRUE]
    /\ UNCHANGED exceptLife

\* MirrorHandler.MirrorProvider: fetchPlatformsToMirror, downloadPlatforms of
\* which the platforms in mirroredPlatforms succeed, saveMirroredProvider
MirrorProvider ==
    /\ lifeOp.pc = "idle"
    /\ \E fetched \in BOOLEAN, mirroredPlatforms \in SUBSET Plats :
          LET provider_ == getOrCreateProvider(coord.provider)
              files == [p \in Plats |-> coord.file[p] \/ p \in mirroredPlatforms]
          IN  IF ~fetched
              THEN /\ mirroredPlatforms = {}
                   /\ lifeOp' = Answer("mirror", "404", TRUE)
                   /\ UNCHANGED coord
              ELSE IF mirroredPlatforms = {}
              THEN /\ lifeOp' = Answer("mirror", "500", TRUE)
                   /\ UNCHANGED coord
              ELSE IF ~provider_.ok
              THEN /\ lifeOp' = Answer("mirror", "500", FALSE)
                   /\ coord' = [coord EXCEPT !.file = files]
              ELSE /\ lifeOp' = Answer("mirror", "200", FALSE)
                   /\ coord' = [coord EXCEPT
                                  !.provider = provider_.state,
                                  !.file = files,
                                  !.row = [p \in Plats |-> @[p] \/ p \in mirroredPlatforms]]
    /\ UNCHANGED exceptLife

\* Scheduler.downloadAndSavePlatform of platform p: DownloadAndCacheProvider,
\* then the Provider row is looked up and, when not found, created without
\* looking at the error, and the platform row is created under provider.ID,
\* which is 0 when the Create failed
SyncPlatform(p) ==
    /\ lifeOp.pc = "idle"
    /\ \E downloaded \in BOOLEAN :
          LET provider_ == getOrCreateProvider(coord.provider)
          IN  IF ~downloaded
              THEN /\ lifeOp' = Answer("sync", "failed", TRUE)
                   /\ UNCHANGED coord
              ELSE IF ~provider_.ok
              THEN /\ lifeOp' = Answer("sync", "success", FALSE)
                   /\ coord' = [coord EXCEPT !.file[p] = TRUE, !.orphan[p] = TRUE]
              ELSE /\ lifeOp' = Answer("sync", "success", FALSE)
                   /\ coord' = [coord EXCEPT !.provider = provider_.state,
                                             !.file[p] = TRUE, !.row[p] = TRUE]
    /\ UNCHANGED exceptLife

\* MirrorHandler.ImportProvider of an archive of this version:
\* getOrCreateImportedProvider, then extractPlatformsFromZip, of which the
\* platforms in importedPlatforms are extracted and saved
ImportArchive ==
    /\ lifeOp.pc = "idle"
    /\ \E importedPlatforms \in SUBSET Plats :
          LET provider_ == getOrCreateProvider(coord.provider)
          IN  IF ~provider_.ok
              THEN /\ importedPlatforms = {}
                   /\ lifeOp' = Answer("import", "500", FALSE)
                   /\ UNCHANGED coord
              ELSE /\ lifeOp' = IF importedPlatforms = {}
                                THEN Answer("import", "400", TRUE)
                                ELSE Answer("import", "200", FALSE)
                   /\ coord' = [coord EXCEPT
                                  !.provider = provider_.state,
                                  !.file = [p \in Plats |-> @[p] \/ p \in importedPlatforms],
                                  !.row = [p \in Plats |-> @[p] \/ p \in importedPlatforms]]
    /\ UNCHANGED exceptLife

\* MirrorHandler.DeleteProvider: the files of the platform rows are removed, the
\* platform rows and the Provider row are soft-deleted
DeleteProvider ==
    /\ lifeOp.pc = "idle"
    /\ IF coord.provider # "present"
       THEN /\ lifeOp' = Answer("delete", "404", TRUE)
            /\ UNCHANGED coord
       ELSE /\ lifeOp' = Answer("delete", "200", FALSE)
            /\ coord' = [coord EXCEPT
                           !.provider = "deleted",
                           !.file = [p \in Plats |-> @[p] /\ ~coord.row[p]],
                           !.row = NoPlats]
    /\ UNCHANGED exceptLife

\* the handler has answered
LifeReturn ==
    /\ lifeOp.pc = "done"
    /\ lifeOp' = IdleLife
    /\ UNCHANGED coord
    /\ UNCHANGED exceptLife

----------------------------------------------------------------------------
(* Specifications *)

SanIdle ==
    /\ san = [base |-> <<"/", "a">>, comp |-> [i \in 1..5 |-> <<"a">>],
              pc |-> "off", op |-> "none", res |-> "none", built |-> NoBuild,
              mk |-> {}, wr |-> {}, acc |-> {}]
    /\ catalog = {}

CacheIdle ==
    /\ dir = [p \in Plats |-> [final |-> None, tmp |-> None]]
    /\ content = [i \in Inodes |-> <<>>]
    /\ task = [t \in Tasks |-> IdleTask]
    /\ provider = FALSE
    /\ rows = [p \in Plats |-> <<>>]
    /\ ops = 0
    /\ upFault = FALSE

ProxyIdle ==
    /\ settings = [exists |-> FALSE, conf |-> NoConf]
    /\ pfields = NoConf
    /\ httpClient = DirectClient
    /\ mu = [writer |-> None, readers |-> {}]
    /\ caller = [c \in Callers |-> IdleCaller]

SchedIdle ==
    /\ sched = [id \in SchedIds |-> NoRow]
    /\ jobs = {}
    /\ entry = [id \in SchedIds |-> ""]
    /\ cronEntries = {}
    /\ jobEntryID = [id \in SchedIds |-> NoEntryID]
    /\ fresh = FALSE
    /\ run = [r \in Runs |-> FreeRun]
    /\ trig = [id \in SchedIds |-> FALSE]

ServeIdle ==
    /\ allowOnline = TRUE
    /\ dbProvider = [exists |-> FALSE, downloads |-> 0]
    /\ dbPlatform = [p \in Plats |-> NoPlatform]
    /\ req = [r \in Reqs |-> IdleReq]
    /\ served = 0
    /\ archives = IdleArch
    /\ index = IdleIndex

StreamIdle ==
    /\ stream = IdleStream
    /\ mirrored = [files |-> {}, rows |-> {}]

ResolveIdle == resolve = IdleResolve

LifeIdle == coord = NoCoord /\ lifeOp = IdleLife

CallIdle == call = IdleCall /\ logLines = {}

ImportIdle ==
    /\ package = NoPackage
    /\ imp = IdleImport
    /\ dest = [provider |-> FALSE, row |-> [p \in Plats |-> NoDestRow],
               file |-> [p \in Plats |-> "none"], sum |-> [p \in Plats |-> NoSum]]

InitSan ==
    /\ \E base \in Bases, pos \in 1..5, s \in Strs(MaxLen) :
          san = [base |-> base,
                 comp |-> [i \in 1..5 |-> IF i = pos THEN s ELSE <<"a">>],
                 pc |-> "idle", op |-> "none", res |-> "none", built |-> NoBuild,
                 mk |-> {}, wr |-> {}, acc |-> {}]
    /\ catalog = {}
    /\ CacheIdle
    /\ ProxyIdle
    /\ SchedIdle
    /\ ServeIdle
    /\ StreamIdle
    /\ ResolveIdle
    /\ ImportIdle
    /\ LifeIdle
    /\ CallIdle

NextSan ==
    \/ SanDownloadAndCacheProvider
    \/ SanDownloadAndStoreProvider
    \/ SanSaveUploadedProvider
    \/ SanExtractZipFile
    \/ SanGetCachedFilePath
    \/ SanCreateProvider
    \/ SanDownloadProvider
    \/ SanDeleteProvider

SpecSan == InitSan /\ [][NextSan]_vars

Init ==
    /\ SanIdle
    /\ CacheIdle
    /\ ProxyIdle
    /\ SchedIdle
    /\ ServeIdle
    /\ StreamIdle
    /\ ResolveIdle
    /\ ImportIdle
    /\ LifeIdle
    /\ CallIdle

TaskStep(t) ==
    \/ FillBegin(t)
    \/ CacheBegin(t)
    \/ StoreBegin(t)
    \/ CreateTemp(t)
    \/ CopyChunk(t)
    \/ CacheFinish(t)
    \/ StoreFinish(t)
    \/ SaveRow(t)
    \/ SaveAll(t)

Next ==
    \/ \E t \in Tasks : StartMirror(t)
    \/ \E t \in Tasks : StartSync(t)
    \/ \E t \in Tasks, p \in Plats : StartFallback(t, p)
    \/ \E t \in Tasks, p \in Plats : StartBgCache(t, p)
    \/ \E t \in Tasks : StartFill(t)
    \/ \E t \in Tasks : TaskStep(t)
    \/ \E t \in Tasks : Release(t)

Spec == Init /\ [][Next]_vars

\* goroutines and handlers that have started keep being scheduled
FairSpec == Spec /\ \A t \in Tasks : WF_vars(TaskStep(t))


InitProxy ==
    /\ SanIdle
    /\ CacheIdle
    /\ ProxyIdle
    /\ SchedIdle
    /\ ServeIdle
    /\ StreamIdle
    /\ ResolveIdle
    /\ ImportIdle
    /\ LifeIdle
    /\ CallIdle

NextProxy ==
    \/ UpdateSettings
    \/ \E c \in Callers : BeginRequest(c)
    \/ \E c \in Callers : BeginMirror(c)
    \/ \E c \in Callers : BeginRunSync(c)
    \/ \E c \in Callers : SetProxyLock(c)
    \/ \E c \in Callers : SetProxyFields(c)
    \/ \E c \in Callers : BeginStore(c)
    \/ \E c \in Callers : EndStore(c)
    \/ \E c \in Callers : SetProxyUnlock(c)
    \/ \E c \in Callers : BeginRead(c)
    \/ \E c \in Callers : EndRead(c)
    \/ \E c \in Callers : EndRequest(c)

SpecProxy == InitProxy /\ [][NextProxy]_vars

InitSched ==
    /\ SanIdle
    /\ CacheIdle
    /\ ProxyIdle
    /\ SchedIdle
    /\ ServeIdle
    /\ StreamIdle
    /\ ResolveIdle
    /\ ImportIdle
    /\ LifeIdle
    /\ CallIdle

RunStep(r) ==
    \/ RunSyncLoad(r)
    \/ RunSyncMirror(r)
    \/ RunSyncSave(r)

NextSched ==
    \/ \E id \in SchedIds : CreateSchedule(id)
    \/ \E id \in SchedIds : UpdateSchedule(id)
    \/ \E id \in SchedIds : DeleteSchedule(id)
    \/ \E id \in SchedIds : RunScheduleNow(id)
    \/ RefreshSchedules
    \/ \E id \in SchedIds, r \in Runs : CronFire(id, r)
    \/ \E r \in Runs : RunStep(r)

SpecSched == InitSched /\ [][NextSched]_vars

\* the ticker of watchForChanges and the clock of cron run whatever the requests
\* do, so a refresh or a firing that is possible again and again happens; a
\* started goroutine keeps running
FairSpecSched ==
    /\ SpecSched
    /\ SF_vars(RefreshSchedules)
    /\ \A id \in SchedIds : SF_vars(\E r \in Runs : CronFire(id, r))
    /\ \A r \in Runs : WF_vars(RunStep(r))

\* the rows a database file may hold when the server starts: those SyncHandler
\* stores, and rows of another writer whose expression does not parse
StoredRows ==
    {NoRow} \cup
    {[state |-> "present", enabled |-> enabled, cron |-> expr, status |-> "",
      next |-> IF Parses(expr) THEN NextFiring(expr) ELSE NoNext] :
        enabled \in BOOLEAN, expr \in CronExprs \cup {BadExpr}}

\* the scheduler after Start on such a database: loadSchedules has made the
\* jobs, and addJob has written next_run_at of the rows it made a job for
InitCron ==
    /\ SanIdle
    /\ CacheIdle
    /\ ProxyIdle
    /\ ServeIdle
    /\ StreamIdle
    /\ ResolveIdle
    /\ ImportIdle
    /\ LifeIdle
    /\ CallIdle
    /\ \E table \in [SchedIds -> StoredRows] :
          LET st == loadSchedules(table)
          IN  /\ sched = [id \in SchedIds |->
                            IF id \in st.jobs
                            THEN [table[id] EXCEPT !.next = NextFiring(st.entry[id])]
                            ELSE table[id]]
              /\ jobs = st.jobs
              /\ entry = st.entry
              /\ cronEntries = st.cron
              /\ jobEntryID = st.ids
    /\ fresh = FALSE
    /\ run = [r \in Runs |-> FreeRun]
    /\ trig = [id \in SchedIds |-> FALSE]

SpecCron == InitCron /\ [][NextSched]_vars

InitServe ==
    /\ SanIdle
    /\ CacheIdle
    /\ ProxyIdle
    /\ SchedIdle
    /\ ServeIdle
    /\ StreamIdle
    /\ ResolveIdle
    /\ ImportIdle
    /\ LifeIdle
    /\ CallIdle

NextServe ==
    \/ SetAllowOnline
    \/ CreateProvider
    \/ ImportProvider
    \/ \E r \in Reqs, p \in Plats : DownloadProvider(r, p)
    \/ \E r \in Reqs : DownloadFetch(r)
    \/ \E r \in Reqs : DownloadRecord(r)
    \/ \E r \in Reqs : DownloadCount(r)
    \/ \E r \in Reqs : DownloadServe(r)
    \/ \E r \in Reqs : DownloadEnd(r)

SpecServe == InitServe /\ [][NextServe]_vars

InitArch ==
    /\ SanIdle
    /\ CacheIdle
    /\ ProxyIdle
    /\ SchedIdle
    /\ ServeIdle
    /\ StreamIdle
    /\ ResolveIdle
    /\ ImportIdle
    /\ LifeIdle
    /\ CallIdle

NextArch ==
    \/ SetAllowOnline
    \/ CreateProvider
    \/ ImportProvider
    \/ GetVersionArchives
    \/ ArchivesEnd
    \/ ListAvailableVersions
    \/ IndexEnd

SpecArch == InitArch /\ [][NextArch]_vars

InitStream ==
    /\ SanIdle
    /\ CacheIdle
    /\ ProxyIdle
    /\ SchedIdle
    /\ ServeIdle
    /\ StreamIdle
    /\ ResolveIdle
    /\ ImportIdle
    /\ LifeIdle
    /\ CallIdle

\* the steps of the handler goroutine
StreamStep ==
    \/ StreamFetchPlatforms
    \/ StreamDownloadBegin
    \/ StreamDownloadPlatform
    \/ StreamSave
    \/ StreamEnd

NextStream ==
    \/ MirrorProviderWithProgress
    \/ StreamStep
    \/ StreamDisconnect

SpecStream == InitStream /\ [][NextStream]_vars

\* the handler goroutine is scheduled until it returns; every upstream call
\* ends within the client's timeout
FairSpecStream == SpecStream /\ WF_vars(StreamStep)

InitResolve ==
    /\ SanIdle
    /\ CacheIdle
    /\ ProxyIdle
    /\ SchedIdle
    /\ ServeIdle
    /\ StreamIdle
    /\ ImportIdle
    /\ LifeIdle
    /\ CallIdle
    /\ \E up \in UpstreamAnswers, rq \in ResolveRequests :
          resolve = [IdleResolve EXCEPT !.up = up, !.rq = rq]

NextResolve ==
    \/ ResolveInScheduler
    \/ ResolveInHandler

SpecResolve == InitResolve /\ [][NextResolve]_vars

InitImport ==
    /\ SanIdle
    /\ CacheIdle
    /\ ProxyIdle
    /\ SchedIdle
    /\ ServeIdle
    /\ StreamIdle
    /\ ResolveIdle
    /\ ImportIdle
    /\ LifeIdle
    /\ CallIdle

NextImport ==
    \/ ExportProvider
    \/ ImportBegin
    \/ ImportExtract
    \/ ImportCopy
    \/ ImportEnd
    \/ ImportReturn

SpecImport == InitImport /\ [][NextImport]_vars

InitCall ==
    /\ \/ \E s \in StrsOver(Bytes, MaxLen + 1) :
             call = [IdleCall EXCEPT !.pc = "idle", !.s = s]
       \/ \E namespace \in StrsOver(Bytes, 1), name \in StrsOver(Bytes, 1),
             version \in VersionStrs :
             call = [IdleCall EXCEPT !.pc = "idle", !.namespace = namespace,
                                     !.name = name, !.version = version]
    /\ logLines = {}
    /\ SanIdle
    /\ CacheIdle
    /\ ProxyIdle
    /\ SchedIdle
    /\ ServeIdle
    /\ StreamIdle
    /\ ResolveIdle
    /\ ImportIdle
    /\ LifeIdle

NextCall ==
    \/ CallSanitizePathComponent
    \/ CallSanitizeFilename
    \/ CallGetVersionArchives
    \/ CallSafeLogf
    \/ CallRunSync
    \/ CallDownloadAndSavePlatform

SpecCall == InitCall /\ [][NextCall]_vars

InitLife ==
    /\ SanIdle
    /\ CacheIdle
    /\ ProxyIdle
    /\ SchedIdle
    /\ ServeIdle
    /\ StreamIdle
    /\ ResolveIdle
    /\ ImportIdle
    /\ LifeIdle
    /\ CallIdle

NextLife ==
    \/ \E p \in Plats : UploadProvider(p)
    \/ MirrorProvider
    \/ \E p \in Plats : SyncPlatform(p)
    \/ ImportArchive
    \/ DeleteProvider
    \/ LifeReturn

SpecLife == InitLife /\ [][NextLife]_vars

----------------------------------------------------------------------------
(* Properties of the sanitizer and of the paths reaching the filesystem (SpecSan) *)

\* a path lies inside the storage base directory
InsideBase(p, base) == HasPrefix(Clean(p), Clean(base) \o <<"/">>)

\* the specification's validity of a component
ValidComponent(s) ==
    /\ s # <<>>
    /\ ~Contains(s, <<".", ".">>)
    /\ \A i \in 1..Len(s) : s[i] \notin {"/", "\\", NUL}
    /\ s[1] = "a"
    /\ \A i \in 2..Len(s) : s[i] \in {"a", ".", "_", "-"}

\* C4: every path handed to the filesystem (created, written, read, served or
\* removed) lies inside the storage base directory.
C4_AllAccessInsideBase ==
    \A p \in san.mk \cup san.wr \cup san.acc : InsideBase(p, san.base)

\* C5: when buildSafeProviderPath returns a path, it is the cleaned base followed
\* by /namespace/name/version/os/arch; when a component is invalid it returns an
\* error.
C5_BuildSafePath ==
    san.op \notin {"none", "CreateProvider"} =>
        /\ san.built.ok =>
              /\ san.built.val = Clean(san.base) \o <<"/">> \o san.comp[1] \o <<"/">>
                                    \o san.comp[2] \o <<"/">> \o san.comp[3] \o <<"/">>
                                    \o san.comp[4] \o <<"/">> \o san.comp[5]
              /\ HasPrefix(san.built.val, Clean(san.base) \o <<"/">>)
        /\ (\E i \in 1..5 : ~ValidComponent(san.comp[i])) => ~san.built.ok

\* C5 witness: a path was returned for a base that needed cleaning
C5_Witness ==
    /\ san.op = "GetCachedFilePath"
    /\ san.built.ok
    /\ san.base = <<"/", "a", "/">>
    /\ san.comp[5] = <<"a", ".">>

\* C6: an operation that a sanitizer rejected has created no directory and no file.
C6_RejectionTouchesNothing ==
    san.res = "rejected" => san.mk = {} /\ san.wr = {}

----------------------------------------------------------------------------
(* Properties of the cache store and the mirror operations (Spec, FairSpec) *)

\* every operation started so far is still in its task slot
NoneReleased == ops = Cardinality({t \in Tasks : task[t].kind # "free"})

\* the operations started so far all go through DownloadAndCacheProvider
OnlyCacheOps == NoneReleased /\ \A t \in Tasks : task[t].kind # "fill"

\* in this step the download of task t's current platform returns an error
DownloadFails(t) ==
    /\ task[t].pc \in {"begin", "copy"}
    /\ task'[t] # task[t]
    /\ task'[t].got[task[t].plat] = NoSha
    /\ ~(task'[t].pc \in {"create", "copy"} /\ task'[t].plat = task[t].plat)

AllCached == \A p \in Plats : rows[p] # <<>>

\* C1: while download-and-cache operations on one coordinate interleave, whatever
\* is at the final path is the complete file whose SHA-256 is the descriptor's,
\* and a platform an operation reported as downloaded has its file there.
C1_FinalAlwaysComplete ==
    OnlyCacheOps =>
        \A p \in Plats :
            /\ dir[p].final # None => SHA256(content[dir[p].final]) = DescriptorSHA
            /\ \A t \in Tasks : task[t].got[p] # NoSha => dir[p].final # None

\* C2: when a download by DownloadAndCacheProvider or DownloadAndStoreProvider
\* fails, the final path is absent or holds a file whose checksum is the
\* descriptor's, and the temp file it created is gone.
C2_FailureLeavesNoPartialFile ==
    [][\A t \in Tasks :
          DownloadFails(t) =>
              /\ \/ dir'[task[t].plat].final = None
                 \/ SHA256(content'[dir'[task[t].plat].final]) = DescriptorSHA
              /\ task[t].fd # None => dir'[task[t].plat].tmp = None]_vars

\* C3: bytes that do not hash to the descriptor's SHA-256 are never persisted:
\* they are at no final path and no ProviderPlatform row records their digest.
C3_MismatchNeverPersisted ==
    \A p \in Plats :
        /\ dir[p].final # None => content[dir[p].final] # BadBody
        /\ \A i \in 1..Len(rows[p]) : rows[p][i] # SHA256(BadBody)

\* C8: a mirror operation that resolved its platforms reports failure exactly
\* when every platform failed to download.
C8_FailureIffAllPlatformsFailed ==
    \A t \in Tasks :
        (task[t].pc = "done" /\ task[t].kind \in {"mirror", "sync"} /\ task[t].resolved)
            => (task[t].result = "failed" <=> \A p \in Plats : task[t].got[p] = NoSha)

\* C9: once GetVersionArchives has started the background fill, every upstream
\* platform eventually has a ProviderPlatform row, unless upstream fails or
\* serves wrong bytes.
C9_GapEventuallyFilled ==
    \A t \in Tasks : (task[t].pc = "fillBegin") ~> (AllCached \/ upFault)

\* C14: the version's provider never has two ProviderPlatform rows for the same
\* (os, arch), whatever operations run concurrently.
C14_OneRowPerPlatform == \A p \in Plats : Len(rows[p]) <= 1

\* C15: once a platform has a recorded checksum and a cached file, a re-fetch of it
\* (mirror, sync, fallback) never goes on to download over that file: it returns
\* the file, or an error when the file's checksum is not the descriptor's.
C15_RefetchNeverOverwrites ==
    [][\A t \in Tasks :
          (/\ task[t].pc = "begin"
           /\ task[t].kind \in {"mirror", "sync", "fallback"}
           /\ rows[task[t].plat] # <<>>
           /\ dir[task[t].plat].final # None)
          => task'[t].pc # "create"]_vars

\* C16: when no background fill is at work, a Provider row exists for the version
\* only if a ProviderPlatform row of it was saved.
C16_ProviderOnlyIfCached ==
    (provider /\ \A t \in Tasks : task[t].kind = "fill" => task[t].pc = "done")
    => RowCount > 0

\* C18: when download_binary falls back to upstream and serves the file, the file
\* at the final path is complete and has the descriptor's checksum.
C18_FallbackServesVerifiedFile ==
    [][\A t \in Tasks :
          (/\ task[t].kind = "fallback"
           /\ task[t].pc # "done"
           /\ task'[t].pc = "done"
           /\ task'[t].result = "success")
          => LET f == dir'[task[t].plat].final
             IN  f # None /\ SHA256(content'[f]) = DescriptorSHA]_vars

\* C25: two calls of DownloadAndCacheProvider for one coordinate return the same
\* checksum (the path is the coordinate's final path), and a call that finds a
\* file matching the descriptor at that path performs no binary download.
C25_SecondCallIsCacheHit ==
    /\ [](\A t \in Tasks : task[t].kind \notin {"free", "fill"} =>
              \A p \in Plats : task[t].got[p] \in {NoSha, DescriptorSHA})
    /\ [][\A t \in Tasks :
             (/\ task[t].pc = "begin"
              /\ task[t].kind # "fill"
              /\ task'[t] # task[t]
              /\ dir[task[t].plat].final # None
              /\ SHA256(content[dir[task[t].plat].final]) = DescriptorSHA)
             => /\ task'[t].pc # "create"
                /\ task'[t].got[task[t].plat] \in {NoSha, DescriptorSHA}
                /\ dir' = dir /\ content' = content]_vars

\* a mirror and a sync have both returned every platform with the descriptor's
\* checksum and the final paths hold the first two files ever created: each
\* platform was downloaded once and the other call was a cache hit
C25_Witness ==
    /\ task[1].kind \in {"mirror", "sync"} /\ task[1].pc = "done"
    /\ task[2].kind \in {"mirror", "sync"} /\ task[2].pc = "done"
    /\ \A t \in Tasks, p \in Plats : task[t].got[p] = DescriptorSHA
    /\ \A p \in Plats : dir[p] = [final |-> p, tmp |-> None]
    /\ \A p \in Plats : content[p] = GoodBody

\* a file all of whose chunks were written by one download
WhollyWritten(c) == c \in {GoodBody, BadBody}

\* C30: IsCached and GetCachedFilePath report a platform as cached only when a
\* completely written file is at its final path, and the path they return is
\* that file: never the ".tmp" file, never a partially written file, at any
\* moment of running, concurrent or failed downloads.
C30_CachedMeansWhollyWritten ==
    \A p \in Plats :
        IsCached(dir, p) =>
            /\ GetCachedFilePath(dir, p).path = "final"
            /\ WhollyWritten(content[GetCachedFilePath(dir, p).file])

----------------------------------------------------------------------------
(* Properties of the proxy client and of the scheduler (SpecProxy, FairSpecSched) *)

\* C7: no upstream call reads p.httpClient while SetProxy is replacing it.
C7_NoReadDuringReplacement ==
    \A r \in Callers, w \in Callers :
        ~(caller[r].pc = "reading" /\ caller[w].pc = "storing")

\* C10: after a run-now request on a schedule, enabled or not, its last_status
\* eventually becomes success or failed, unless the schedule is deleted.
C10_RunNowEventuallyFinishes ==
    \A id \in SchedIds :
        trig[id] ~> (sched[id].status \in {"success", "failed"} \/ sched[id].state # "present")

\* the rows a reconciliation tick finds present and enabled
EnabledRows == {id \in SchedIds : sched[id].state = "present" /\ sched[id].enabled}

\* C11: right after a reconciliation tick the job set is exactly the set of the
\* rows that were present and enabled when the tick read the table.
C11_JobsMatchTable == fresh => jobs = EnabledRows

\* a tick has removed the job of a schedule that had run and was then disabled
C11_Witness ==
    /\ fresh
    /\ jobs = {}
    /\ \E id \in SchedIds :
          /\ sched[id].state = "present"
          /\ ~sched[id].enabled
          /\ sched[id].status \in {"success", "failed"}

\* C12: right after a reconciliation tick every registered job fires by the cron
\* expression its row holds, edited or not.
C12_JobFollowsEditedRow == fresh => \A id \in jobs : entry[id] = sched[id].cron

\* C13: last_status of a schedule changes only to running, or from running to a
\* terminal status; a terminal status is never replaced by the other one.
C13_StatusLifecycle ==
    [][\A id \in SchedIds :
          (/\ sched[id].state = "present"
           /\ sched'[id].state = "present"
           /\ sched'[id].status # sched[id].status)
          => (sched'[id].status = "running" \/ sched[id].status = "running")]_vars

\* the proxy an upstream call made with a client goes through
Route(client) ==
    IF client.via \in {"http", "socks5"} THEN <<client.via, client.url>> ELSE <<"none", "">>

\* the proxy the Settings row asks for
SettingsRoute == IF settings.exists THEN Route(ClientFor(settings.conf)) ELSE <<"none", "">>

\* C17: an upstream call of a handler or sync that started after the last change
\* of the proxy settings goes through the proxy the settings name.
C17_CallsUseCurrentSettings ==
    \A c \in Callers :
        (caller[c].pc = "get" /\ ~caller[c].stale) => Route(caller[c].client) = SettingsRoute

\* C26: every create, every update and every finished run of a schedule leaves
\* next_run_at at the next firing time of the cron expression the row holds.
C26_NextRunRecomputed ==
    [][\A id \in SchedIds :
          (/\ \/ CreateSchedule(id)
              \/ UpdateSchedule(id)
              \/ \E r \in Runs : run[r].id = id /\ RunSyncSave(r)
           /\ sched'[id].state = "present")
          => sched'[id].next = NextFiring(sched'[id].cron)]_vars

\* C35: a sync run changes only last_run_at, last_status, last_error and
\* next_run_at of its row: the enabled flag and the cron expression an operator
\* committed while the run was in progress are in the table after the run has
\* recorded its result.
C35_RunKeepsOperatorEdits ==
    [][\A r \in Runs :
          (run[r].pc \in {"load", "save"} /\ run'[r] = FreeRun
              /\ sched[run[r].id].state = "present")
          => /\ sched'[run[r].id].enabled = sched[run[r].id].enabled
             /\ sched'[run[r].id].cron = sched[run[r].id].cron]_vars

\* the live entries of s.cron that the job map names under the schedule id
EntriesOf(id) == {e \in cronEntries : e.eid = jobEntryID[id]}

\* the keys of the job map that name the live entry
KeysOf(e) == {id \in jobs : jobEntryID[id] = e.eid}

\* C40: at all times every schedule id in the job map refers to exactly one live
\* cron entry and every live cron entry is referenced by exactly one key of the
\* map: addJob (a parse failure included), removeJob and the reconciliation
\* tick leak no entry and leave no stale key
C40_JobMapMatchesCron ==
    /\ \A id \in jobs : Cardinality(EntriesOf(id)) = 1
    /\ \A e \in cronEntries : Cardinality(KeysOf(e)) = 1
    /\ \A e \in cronEntries : KeysOf(e) = {e.sid}

\* the tick called addJob for an enabled row whose expression does not parse:
\* the row has no job, and no entry runs it
C40_Witness ==
    /\ fresh
    /\ \E id \in SchedIds :
          /\ sched[id].state = "present"
          /\ sched[id].enabled
          /\ sched[id].cron = BadExpr
          /\ id \notin jobs
          /\ jobEntryID[id] = NoEntryID
          /\ \A e \in cronEntries : e.sid # id

----------------------------------------------------------------------------
(* Properties of the download and archive endpoints (SpecServe, SpecArch) *)

\* C19: the downloads counter equals the number of binaries served, counting the
\* requests that have incremented it and are about to serve.
C19_DownloadsEqualServes ==
    dbProvider.downloads = served + Cardinality({r \in Reqs : req[r].pc = "serve"})

C21_IndexIsUnion ==
    (index.pc = "done" /\ index.valid) =>
        LET union == index.local \cup
                     (IF index.allow /\ index.up.ok THEN index.up.versions ELSE {})
        IN  /\ (index.resp.status = "404") <=> (union = {})
            /\ index.resp.status \in {"404", "200"}
            /\ index.resp.status = "200" => index.resp.versions = union
            /\ ~index.allow => ~index.resp.contacted

\* a local version and a different upstream version answered together
C21_Witness ==
    /\ index.pc = "done"
    /\ index.valid
    /\ index.allow
    /\ index.up.ok
    /\ index.local # {}
    /\ index.up.versions \ index.local # {}
    /\ index.resp.status = "200"
    /\ index.resp.versions = Versions

----------------------------------------------------------------------------
(* Properties of the progress stream (SpecStream, FairSpecStream) *)

Terminal(e) == e[1] \in {"complete", "error"}

IsPrefix(s, u) == Len(s) <= Len(u) /\ \A k \in DOMAIN s : s[k] = u[k]

\* the events of a stream so far: nothing is left unflushed, the subscriber has
\* received the events in emission order, all of them while it is connected; a
\* terminal event is the last one, and the handler is done when it was sent;
\* a returned handler has sent one, a complete event carrying percent 100
StreamWellFormed ==
    /\ stream.buf = <<>>
    /\ IsPrefix(stream.delivered, stream.emitted)
    /\ stream.connected => stream.delivered = stream.emitted
    /\ \A k \in DOMAIN stream.emitted :
          Terminal(stream.emitted[k]) => (k = Len(stream.emitted) /\ stream.pc = "done")
    /\ stream.pc = "done" =>
          /\ stream.emitted # <<>>
          /\ Terminal(stream.emitted[Len(stream.emitted)])
          /\ stream.emitted[Len(stream.emitted)][1] = "complete" =>
                stream.emitted[Len(stream.emitted)][3] = 100

\* C22: every progress stream ends with exactly one terminal event, complete
\* with percent 100 or error, which is the last event; the events reach the
\* subscriber in emission order, each flushed before the next is emitted.
C22_OneTerminalEventLast ==
    /\ []StreamWellFormed
    /\ (stream.pc # "idle") ~> (stream.pc = "done")

\* a connected subscriber has received the events of a mirror of two platforms,
\* one of which failed, ending with the complete event
C22_Witness ==
    /\ stream.pc = "done"
    /\ stream.connected
    /\ stream.total = 2
    /\ \E k \in DOMAIN stream.outcome : ~stream.outcome[k]
    /\ stream.delivered = stream.emitted
    /\ stream.delivered[Len(stream.delivered)] = Event("complete", 2, 100)

\* the platforms whose download succeeded, in the order of the list
Succeeded(outcome) == SelectSeq([k \in DOMAIN outcome |-> k], LAMBDA k : outcome[k])

Range(s) == {s[k] : k \in DOMAIN s}

\* what a returned handler leaves, in terms of the downloads' outcomes alone:
\* every platform of the list was attempted, the successful ones have a cache
\* file, and their rows are saved unless saveMirroredProvider failed
MirrorResultComplete ==
    stream.pc = "done" =>
        /\ Len(stream.outcome) = stream.total
        /\ stream.mirroredPlatforms = Succeeded(stream.outcome)
        /\ Range(stream.mirroredPlatforms) \subseteq mirrored.files
        /\ stream.saved => Range(stream.mirroredPlatforms) \subseteq mirrored.rows
        /\ stream.emitted[Len(stream.emitted)][1] = "complete" <=> stream.saved

\* C23: when the subscriber disconnects, the download loop still attempts every
\* remaining platform and the handler runs to its end; the cache files and the
\* rows are those the downloads' outcomes give, connected or not.
C23_DisconnectChangesNothing ==
    /\ []MirrorResultComplete
    /\ (stream.pc # "idle" /\ ~stream.connected) ~> (stream.pc = "done")

\* the subscriber left before the first download; both platforms were
\* downloaded and saved all the same
C23_Witness ==
    /\ stream.pc = "done"
    /\ ~stream.connected
    /\ Len(stream.delivered) <= 3
    /\ stream.total = 2
    /\ stream.mirroredPlatforms = <<1, 2>>
    /\ stream.saved
    /\ mirrored = [files |-> {1, 2}, rows |-> {1, 2}]

\* the events that carry the counters: the error events are sent without them
CarriesCounters(e) == e[1] \in {"progress", "complete"}

\* C39: across the events of one progress stream that carry the counters,
\* percent and current never decrease from one event to the next, and current
\* never exceeds total
C39_CountersNeverDecrease ==
    LET counted == SelectSeq(stream.emitted, CarriesCounters)
    IN  /\ \A k \in DOMAIN counted : counted[k][2] <= stream.total
        /\ \A k \in 1..(Len(counted) - 1) :
               /\ counted[k][2] <= counted[k + 1][2]
               /\ counted[k][3] <= counted[k + 1][3]

----------------------------------------------------------------------------
(* Properties of the platform resolution (SpecResolve) *)

\* the result the specification gives for an upstream answer and a request
ResolvedAsSpecified(up, rq, res) ==
    IF ~up.ok \/ up.versions = <<>>
    THEN res.err # ""
    ELSE LET v == IF rq.version = "" THEN up.versions[1].version ELSE rq.version
             entries == SelectSeq(up.versions, LAMBDA e : e.version = v)
             wanted == IF entries = <<>> THEN <<>>
                       ELSE SelectSeq(entries[1].platforms,
                               LAMBDA p : (rq.osType = "all" \/ rq.osType = p.os)
                                          /\ (rq.arch = "all" \/ rq.arch = p.arch))
         IN  IF wanted = <<>>
             THEN res.err # ""
             ELSE res = [err |-> "", platforms |-> wanted, version |-> v]

\* C24: the resolution uses the version asked for, or upstream's first entry
\* when none is, and returns in upstream order exactly the platforms of that
\* version passing the os and arch filters; it is an error when upstream fails,
\* has no version or no platform matches; the scheduler and the mirror handler
\* give the same result.
C24_ResolvePlatforms ==
    /\ resolve.scheduler # NoResolution =>
          ResolvedAsSpecified(resolve.up, resolve.rq, resolve.scheduler)
    /\ resolve.handler # NoResolution =>
          ResolvedAsSpecified(resolve.up, resolve.rq, resolve.handler)
    /\ (resolve.scheduler # NoResolution /\ resolve.handler # NoResolution) =>
          resolve.scheduler = resolve.handler

\* linux/all over linux/amd64, linux/arm64, darwin/amd64 of the first version,
\* no version asked for, resolved by both
C24_Witness ==
    /\ resolve.rq = [version |-> "", osType |-> "linux", arch |-> "all"]
    /\ resolve.up.ok
    /\ Len(resolve.up.versions) = 2
    /\ resolve.up.versions[1].platforms =
          <<[os |-> "linux", arch |-> "amd64"], [os |-> "linux", arch |-> "arm64"],
            [os |-> "darwin", arch |-> "amd64"]>>
    /\ resolve.scheduler = [err |-> "",
                            platforms |-> <<[os |-> "linux", arch |-> "amd64"],
                                            [os |-> "linux", arch |-> "arm64"]>>,
                            version |-> resolve.up.versions[1].version]
    /\ resolve.handler = resolve.scheduler

----------------------------------------------------------------------------
(* Properties of export and import (SpecImport) *)

\* C27: when the extraction of a platform fails, its final path holds no file
\* or the complete file.
C27_FailedExtractionLeavesNoPartialFile ==
    [][(imp.pc \in {"extract", "copy"} /\ imp'.failed # imp.failed)
       => dest'.file[imp.manifest[imp.k].plat] \in {"none", "complete"}]_vars

\* the cached platforms of the exported provider
Cached(source) == {p \in Plats : source[p].row /\ source[p].file}

\* the import of an archive as it was exported, into an empty instance, without
\* an I/O error, has answered
RoundTripDone ==
    /\ imp.pc = "done"
    /\ imp.empty
    /\ imp.manifest = package.manifest
    /\ \A p \in Plats : imp.members[p] = "intact"
    /\ imp.failed = {}

\* the importing instance has exactly the rows of the cached platforms of the
\* source, with their sha256sum
SameRows ==
    \A p \in Plats :
        dest.row[p] = IF p \in Cached(package.source)
                      THEN [exists |-> TRUE, sha |-> package.source[p].sha]
                      ELSE NoDestRow

SkippedUntouched ==
    /\ \A k \in DOMAIN imp.imported : imp.imported[k] \notin imp.skipped
    /\ imp.empty => \A p \in imp.skipped :
                       dest.row[p] = NoDestRow /\ dest.file[p] = "none"

C36_RowSumIsFileSum ==
    imp.pc \in {"idle", "done"} =>
        \A p \in Plats : dest.row[p].exists => dest.row[p].sha = dest.sum[p]

----------------------------------------------------------------------------
(* Properties of the sanitizers and validators (SpecCall) *)

\* the whitelist of the specification: an alphanumeric, then alphanumerics,
\* dots, underscores and hyphens
MatchesWhitelist(s) ==
    /\ Len(s) >= 1
    /\ s[1] \in {"a", "A", "1"}
    /\ \A i \in 2..Len(s) : s[i] \in {"a", "A", "1", ".", "_", "-"}

\* the string has two dots in a row
HasDotDot(s) == \E i \in 1..(Len(s) - 1) : s[i] = "." /\ s[i + 1] = "."

\* the validity of a component as the specification words it
ValidAsSpecified(s) ==
    /\ s # <<>>
    /\ ~HasDotDot(s)
    /\ \A i \in 1..Len(s) : s[i] \notin {"/", "\\", NUL}
    /\ MatchesWhitelist(s)

\* C31: sanitizePathComponent accepts a string, returning it unchanged, if and
\* only if it is non-empty, contains none of "..", "/", "\" and NUL, and matches
\* the whitelist; every other string is an error.
C31_AcceptsIffValid ==
    call.op = "sanitizePathComponent" =>
        /\ call.out.ok <=> ValidAsSpecified(call.s)
        /\ call.out.ok => call.out.val = call.s

\* a component with a dot, an underscore or a hyphen in it was accepted
C31_Witness ==
    /\ call.op = "sanitizePathComponent"
    /\ call.out.ok
    /\ Len(call.s) = MaxLen + 1
    /\ \E i \in 2..Len(call.s) : call.s[i] \in {".", "_", "-"}

\* C32 as claimed: every string that matches the whitelist is returned unchanged.
C32_WhitelistedUnchanged ==
    (call.op = "sanitizePathComponent" /\ MatchesWhitelist(call.s))
        => call.out.ok /\ call.out.val = call.s

\* C32 amended: every string that matches the whitelist and has no two dots in
\* a row is returned unchanged.
C32_WhitelistedWithoutDotDotUnchanged ==
    (call.op = "sanitizePathComponent" /\ MatchesWhitelist(call.s) /\ ~HasDotDot(call.s))
        => call.out.ok /\ call.out.val = call.s

\* a whitelisted string with single dots was returned as it came
C32_Witness ==
    /\ call.op = "sanitizePathComponent"
    /\ MatchesWhitelist(call.s)
    /\ \E i \in 1..Len(call.s) : call.s[i] = "."
    /\ ~HasDotDot(call.s)
    /\ call.out = [NoOut EXCEPT !.ok = TRUE, !.val = call.s]

\* C33: sanitizeFilename returns the base name of its input, which has no path
\* separator in it, and returns an error exactly when the input is empty or
\* its base name is ".", ".." or contains NUL.
C33_BaseNameWithoutSeparator ==
    call.op = "sanitizeFilename" =>
        /\ call.out.ok => /\ call.out.val = Base(call.s)
                          /\ \A i \in 1..Len(call.out.val) : call.out.val[i] # "/"
        /\ ~call.out.ok <=> \/ call.s = <<>>
                            \/ Base(call.s) \in {<<".">>, <<".", ".">>}
                            \/ \E i \in 1..Len(Base(call.s)) : Base(call.s)[i] = NUL

\* C34: no string that reaches the log has a control character in it: every
\* user-supplied or upstream-supplied namespace, name, version, os or arch was
\* accepted by strict validation or went through the log sanitizer.
C34_NoControlCharacterInLog ==
    \A line \in logLines : \A i \in 1..Len(line) : line[i] \notin ControlChars

\* C38: the namespace, name and version validateProviderParams accepts are
\* accepted by the path sanitizer, so the background fill of an accepted
\* request does not fail on path validation.
C38_AcceptedParamsPassSanitizer ==
    (call.op = "GetVersionArchives" /\ call.out.ok) =>
        /\ sanitizePathComponent(call.namespace).ok
        /\ sanitizePathComponent(call.name).ok
        /\ call.version # <<>> => sanitizePathComponent(call.version).ok
        /\ (call.out.fill /\ call.version # <<>>) => call.out.path.ok

----------------------------------------------------------------------------
(* Properties of the life of a provider version (SpecLife) *)

\* the version is in the listings, and a platform of it can be downloaded
Listed == coord.provider = "present"

Downloadable(p) == Listed /\ coord.row[p] /\ coord.file[p]

\* C37: after a provider version has been deleted, a mirror, an upload or an
\* import of the same version whose download or extraction went well succeeds:
\* the Provider row exists again with platforms, and the version is listed and
\* can be downloaded.
C37_RecreatedAfterDelete ==
    [][(/\ coord.provider = "deleted"
        /\ lifeOp.pc = "idle"
        /\ lifeOp'.op \in {"mirror", "upload", "import", "sync"}
        /\ ~lifeOp'.fault)
       => /\ lifeOp'.status \in {"200", "201", "success"}
          /\ Listed'
          /\ \E p \in Plats : Downloadable(p)']_vars

====
